---- MODULE Spec2Model ----
(***************************************************************************)
(* Frame loop of the Cosmic Drifter simulation core                        *)
(* (src/components/GameEngine.tsx): loop -> update(dt) with its hit-stop,  *)
(* intro and simulation paths, the entity collections with their           *)
(* mark-then-compact deletion, combat, loot pickup, boss spawn and the     *)
(* terminal callbacks.                                                     *)
(*                                                                         *)
(* Geometry is one-dimensional and discrete: pos.x is a cell index, every  *)
(* entity is one cell wide, projectiles additionally carry a height pos.y  *)
(* (0 = muzzle height, GroundY = the terrain surface).  Enemy locomotion   *)
(* is below the cell resolution and is not modelled; the player moves by   *)
(* inputX * dt cells.  Numbers are integers (dt is a whole number of       *)
(* nominal frames).                                                        *)
(***************************************************************************)
EXTENDS Integers, Sequences, FiniteSets, TLC

\* ------------------------------------------------------------------ bounds
MaxFrames == 3          \* simulated frames explored after the start state
MaxEnemies == 3         \* capacity of the enemy collection
MaxProjectiles == 2     \* capacity of the projectile collection
MaxRawDelta == 5        \* largest raw frame delta the scheduler delivers

\* ------------------------------------------------------ program constants
INVULNERABILITY_FRAMES == 60   \* PHYSICS.INVULNERABILITY_FRAMES
MaxDt == 4                     \* loop: dt > 4
FallbackDt == 1                \* loop: ... ? 1 : dt
ContactDamage == 15
EnemyProjectileDamage == 10
SpikeDamage == 15
LavaDamage == 5
AcidDamage == 2
GeyserDamage == 5
ElectricDamage == 8
HealthPickup == 20
CoreScore == 500
IntroFrames == 180
IntroLanded == 60
AlertFrames == 40
SentinelCooldown == 140
ExplosionDamage == 50
ExplosionRadius == 2           \* dist < 100, in cells
Padding == 1                   \* checkCollisionInflated(proj, enemy, 8), in cells
GroundY == 1                   \* terrain surface, in projectile height units
LogicalWidth == 3              \* state.logicalWidth, in cells
EnemyDensity == 1              \* planet.enemyDensity
UpgradeHull == 1               \* upgrades.hull
UpgradeWeapon == 1             \* upgrades.weapon
CoreSpacing == 2               \* (segments * segmentWidth) / (totalCoresNeeded + 1), in cells
FirstSquadX == 8               \* state.nextSquadSpawnX = 800, in cells of 100 units
MinSquadGap == 8               \* Math.max(800, gap)
SquadGapBase == 25             \* gap = 2500 - ...
SquadGapPerDensity == 2        \* ... - (planet.enemyDensity * 200) ...
SquadGapSpread == 8            \* ... + (Math.random() * 800)

Abs(n) == IF n < 0 THEN -n ELSE n
Min(a, b) == IF a < b THEN a ELSE b
Max(a, b) == IF a > b THEN a ELSE b

maxHealth == 100 + (UpgradeHull - 1) * 25
\* damageMult = 1 + (upgrades.weapon - 1) * 0.2, in fifths
damageMultFifths == 5 + (UpgradeWeapon - 1)

VARIABLES
  player,            \* [x, health, maxHealth, hitTimer]
  weaponCooldown,
  currentWeapon,
  enemies,           \* sequence of enemy entities
  projectiles,       \* sequence of projectile entities
  loot,              \* sequence of loot entities
  hazards,           \* cell -> hazard type
  score,
  coresCollected,
  totalCoresNeeded,
  frameCount,
  isPlaying,
  bossActive,
  introTimer,
  hitStop,
  gameOverCalls,     \* arguments of every onGameOver invocation so far
  victoryCalls,      \* arguments of every onVictory invocation so far
  bossSpawns,        \* number of guardians pushed by spawnBoss so far
  nextSquadSpawnX,   \* the player x beyond which the next squad is spawned
  squadSpawns,       \* number of squads spawned by spawnSquad so far
  rawDelta,          \* (time - lastTime) / 16.66 of the last loop iteration
  dt,                \* the argument the last loop iteration passed to update
  audit,             \* what the last update did (observation only)
  frameLimit,        \* exploration stops when frameCount reaches it
  planet,            \* [weatherVolatility (tenths), weatherTraits]
  weather,           \* [weatherState, currentWeather, weatherTimer,
                     \*  weatherIntensity (thousandths), seen]
  timeOfDay,         \* position in the day cycle, in ten-thousandths
  radio,             \* the narrative messages: [messageQueue, currentMessage, ...]
  flight,            \* the player's vertical state: height above the ground and
                     \*  vel.y in tenths, isGrounded, coyoteTimer, jumpLock, fuel
                     \*  and maxFuel in tenths, the keys of the last update and
                     \*  what it did
  gen                \* the map generator: [allowedBiomes, fallback, cold,
                     \*  vegetationDensity, i, height, currentStyle] in tenths
                     \*  of a unit, with the two newest samples of terrain,
                     \*  the style, hazard kind, isHazard flag and plant of the
                     \*  newest segment, and the segment it started at

simVars == <<player, weaponCooldown, currentWeapon, enemies, projectiles, loot,
             score, coresCollected, frameCount, isPlaying, bossActive,
             introTimer, hitStop, nextSquadSpawnX, squadSpawns>>
vars == <<player, weaponCooldown, currentWeapon, enemies, projectiles, loot,
          hazards, score, coresCollected, totalCoresNeeded, frameCount,
          isPlaying, bossActive, introTimer, hitStop, gameOverCalls,
          victoryCalls, bossSpawns, rawDelta, dt, audit, frameLimit,
          planet, weather, timeOfDay, gen, nextSquadSpawnX, squadSpawns,
          radio, flight>>

\* --------------------------------------------------------------- tables
\* ENEMY_STATS: hit points, score and aggro range (world units).
ENEMY_STATS(arch) ==
  CASE arch = "crawler"  -> [hp |-> 20, score |-> 30, aggroRange |-> 300]
    [] arch = "sentinel" -> [hp |-> 15, score |-> 60, aggroRange |-> 500]
    [] arch = "dasher"   -> [hp |-> 35, score |-> 100, aggroRange |-> 350]
    [] arch = "hornet"   -> [hp |-> 10, score |-> 40, aggroRange |-> 400]
    [] arch = "neutral"  -> [hp |-> 5, score |-> 5, aggroRange |-> 0]
    [] arch = "guardian" -> [hp |-> 500, score |-> 5000, aggroRange |-> 9999]
    [] arch = "sandworm" -> [hp |-> 60, score |-> 150, aggroRange |-> 300]
    [] arch = "shielder" -> [hp |-> 40, score |-> 80, aggroRange |-> 400]
    [] arch = "spore"    -> [hp |-> 10, score |-> 20, aggroRange |-> 150]

\* WEAPONS: damageMult in tenths, fireRate in frames; gravity is that of the
\* launcher's grenade, in height units of the model per frame.
WEAPONS(weapon) ==
  CASE weapon = "blaster"  -> [damageMult |-> 10, fireRate |-> 11, count |-> 1,
                               pierce |-> 0, isExplosive |-> FALSE, gravity |-> 0]
    [] weapon = "scatter"  -> [damageMult |-> 6, fireRate |-> 45, count |-> 5,
                               pierce |-> 0, isExplosive |-> FALSE, gravity |-> 0]
    [] weapon = "rapid"    -> [damageMult |-> 4, fireRate |-> 5, count |-> 1,
                               pierce |-> 0, isExplosive |-> FALSE, gravity |-> 0]
    [] weapon = "sniper"   -> [damageMult |-> 35, fireRate |-> 70, count |-> 1,
                               pierce |-> 3, isExplosive |-> FALSE, gravity |-> 0]
    [] weapon = "launcher" -> [damageMult |-> 25, fireRate |-> 50, count |-> 1,
                               pierce |-> 0, isExplosive |-> TRUE, gravity |-> 1]

HazardTypes == {"lava", "acid", "spikes", "ice", "geyser", "electric", "none"}
LootWeapons == {"sniper", "launcher"}
\* const rand = Math.random(), in hundredths: one draw in each of the bands
\* that the drop chances of common and elite enemies cut out of [0, 1).
Rolls == {5, 20, 45, 60}

\* state.totalCoresNeeded = 4 + Math.floor(planet.enemyDensity / 2.5)
coresNeeded == 4 + (2 * EnemyDensity) \div 5    \* see coresFor
WorldMax == (coresNeeded + 1) * CoreSpacing
Cells == 0..WorldMax

\* --------------------------------------------------------------- geometry
\* checkCollision: the x half of the four-inequality AABB test, unit widths.
\* Grounded entities (player, enemies, loot) occupy the height rows 0..GroundY.
checkCollision(r1, r2) ==
  r1.x < r2.x + 1 /\ r1.x + 1 > r2.x

\* checkCollision(proj, player): the projectile's height row counts too.
checkCollisionProjectile(proj, target) ==
  /\ proj.x < target.x + 1 /\ proj.x + 1 > target.x
  /\ proj.y < GroundY + 1 /\ proj.y + 1 > 0

checkCollisionInflated(proj, target, padding) ==
  /\ proj.x - padding < target.x + 1 /\ proj.x + 1 + padding > target.x
  /\ proj.y - padding < GroundY + 1 /\ proj.y + 1 + padding > 0

\* ---------------------------------------------------------------- spawns
\* Observation record of one update: the damage applications and the blocked
\* ones, the collisions resolved with already-marked entities, the number of
\* entities compaction removed, the path taken, whether health was seen at or
\* below zero, whether spawnBoss pushed the guardian, and the player's health
\* and hitTimer when the simulation part of the frame began; the projectile
\* hits on enemies, the enemy deaths, and the number of enemies that entered
\* the frame with health <= 0, the score at the entry of update, and the
\* changes of aiState with the distance and timers they were made at, and
\* the archetypes of the enemies found overlapping the player, and what the
\* two rules of the enemy loop did to each dasher, and what each enemy did in
\* its iteration of the enemy loop (fired, summoned, hurt the player) with the
\* health it had, and the archetypes of the enemies removed for being below
\* the world, and the calls of spawnExplosion with the projectile that made
\* each, and the player's shots and weapon pickups with the cooldown each
\* found, and the cooldown at the entry of update.
NoAudit == [damage |-> <<>>, blocked |-> <<>>, markedHits |-> {},
            removed |-> 0, path |-> "none", deathSeen |-> FALSE,
            bossSpawned |-> FALSE, health |-> 0, timer |-> 0,
            hits |-> <<>>, kills |-> <<>>, dying |-> 0, score |-> 0,
            moves |-> <<>>, touches |-> <<>>,
            pickups |-> <<>>, squads |-> <<>>, dashers |-> <<>>,
            acts |-> <<>>, fell |-> <<>>, bursts |-> <<>>,
            shots |-> <<>>, swaps |-> <<>>, cooldown |-> 0]

spawnEnemyProjectile(w, x, dir) ==
  [w EXCEPT !.projectiles = Append(@,
     [type |-> "enemy_projectile", x |-> x, y |-> 0, vx |-> dir, vy |-> 0,
      weaponType |-> "none", pierceCount |-> 0, isExplosive |-> FALSE,
      markedForDeletion |-> FALSE, struck |-> <<>>])]

\* Variant of spawnPlayerProjectile that pushes one projectile whatever the
\* weapon's count.
spawnPlayerProjectile_single(w, x, aim, weapon) ==
  [w EXCEPT !.projectiles = Append(@,
     [type |-> "projectile", x |-> x, y |-> 0, vx |-> aim.x, vy |-> aim.y,
      weaponType |-> weapon, pierceCount |-> WEAPONS(weapon).pierce,
      isExplosive |-> WEAPONS(weapon).isExplosive,
      markedForDeletion |-> FALSE, struck |-> <<>>])]

\* for (let i = 0; i < stats.count; i++) { ...projectiles.push({ ... }) }
\* (the spread of the pellets is below the cell resolution)
spawnPlayerProjectile(w, x, aim, weapon) ==
  [w EXCEPT !.projectiles = @ \o [i \in 1..WEAPONS(weapon).count |->
     [type |-> "projectile", x |-> x, y |-> 0, vx |-> aim.x, vy |-> aim.y,
      weaponType |-> weapon, pierceCount |-> WEAPONS(weapon).pierce,
      isExplosive |-> WEAPONS(weapon).isExplosive,
      markedForDeletion |-> FALSE, struck |-> <<>>]]]

\* spawnExplosion: every enemy of the collection within the radius is damaged.
spawnExplosion(w, x) ==
  LET hit(e) == Abs(e.x - x) < ExplosionRadius
      onMarked == \E i \in 1..Len(w.enemies) :
                     hit(w.enemies[i]) /\ w.enemies[i].markedForDeletion
  IN [w EXCEPT
        !.enemies = [i \in 1..Len(w.enemies) |->
                       IF hit(w.enemies[i])
                       THEN [w.enemies[i] EXCEPT
                               !.health = @ - (ExplosionDamage * damageMultFifths) \div 5]
                       ELSE w.enemies[i]],
        !.audit.markedHits = IF onMarked THEN @ \cup {"enemy_explosion"} ELSE @]

spawnBoss(w) ==
  IF w.bossActive THEN w
  ELSE [w EXCEPT
          !.bossActive = TRUE,
          !.bossSpawns = @ + 1,
          !.audit.bossSpawned = TRUE,
          !.enemies = Append(@,
             [archetype |-> "guardian", rarity |-> "common",
              x |-> w.player.x + 1,
              health |-> ENEMY_STATS("guardian").hp,
              maxHealth |-> ENEMY_STATS("guardian").hp,
              aiState |-> "phase1", attackTimer |-> 100, alertTimer |-> 0,
              isBurrowed |-> FALSE, facingRight |-> FALSE, fallen |-> FALSE,
              markedForDeletion |-> FALSE])]

\* let scaledHP = Math.floor(stats.hp * difficultyMult)
scaledHP(arch) == (ENEMY_STATS(arch).hp * (100 + EnemyDensity * 5)) \div 100

\* spawnEnemy, the archetype given (forcedArch or the roll's outcome);
\* forcedRarity is "none" when the caller passes none, and rarityRoll is the
\* outcome of Math.random() > 0.85.
spawnEnemy(w, x, arch, forcedRarity, rarityRoll) ==
  LET difficultyHp == scaledHP(arch)
      rarity0 == IF forcedRarity # "none" THEN forcedRarity
                 ELSE IF arch # "neutral" /\ rarityRoll THEN "elite" ELSE "common"
      hp1 == IF rarity0 = "elite" THEN difficultyHp * 2 ELSE difficultyHp
      hp2 == IF arch = "sandworm" THEN (hp1 * 3) \div 2 ELSE hp1
  IN [w EXCEPT !.enemies = Append(@,
        [archetype |-> arch,
         rarity |-> IF arch = "sandworm" THEN "elite" ELSE rarity0,
         x |-> x, health |-> hp2, maxHealth |-> hp2,
         aiState |-> IF arch = "shielder" THEN "chase" ELSE "idle",
         attackTimer |-> IF arch = "shielder" THEN 300 ELSE 0,
         alertTimer |-> 0, isBurrowed |-> arch = "sandworm",
         facingRight |-> FALSE, fallen |-> FALSE,
         markedForDeletion |-> FALSE])]

spawnLoot(w, x, type) ==
  [w EXCEPT !.loot = Append(@,
     [lootType |-> IF type = "health" THEN "health" ELSE "weapon",
      weaponType |-> IF type = "health" THEN "none" ELSE type,
      x |-> x, landed |-> FALSE, markedForDeletion |-> FALSE])]

\* ------------------------------------------------- update: player section
\* The guarded damage application every damage site of update repeats:
\* if (player.hitTimer <= 0) { player.health -= n;
\*      player.hitTimer = PHYSICS.INVULNERABILITY_FRAMES; [state.hitStop = k] }
\* Variant of applyDamage that takes the health but opens no invulnerability
\* window.
applyDamage_noWindow(w, src, amount, stop) ==
  IF w.player.hitTimer <= 0
  THEN [w EXCEPT
          !.player.health = @ - amount,
          !.hitStop = IF stop > 0 THEN stop ELSE @,
          !.audit.damage = Append(@, [src |-> src, before |-> w.player.health,
                                      after |-> w.player.health - amount,
                                      timer |-> w.player.hitTimer]),
          !.audit.deathSeen = @ \/ (w.player.health - amount <= 0)]
  ELSE w

applyDamage(w, src, amount, stop) ==
  IF w.player.hitTimer <= 0
  THEN [w EXCEPT
          !.player.health = @ - amount,
          !.player.hitTimer = INVULNERABILITY_FRAMES,
          !.hitStop = IF stop > 0 THEN stop ELSE @,
          !.audit.damage = Append(@, [src |-> src, before |-> w.player.health,
                                      after |-> w.player.health - amount,
                                      timer |-> w.player.hitTimer]),
          !.audit.deathSeen = @ \/ (w.player.health - amount <= 0)]
  ELSE [w EXCEPT !.audit.blocked = Append(@, [src |-> src,
                                              health |-> w.player.health,
                                              timer |-> w.player.hitTimer])]

\* if (player.hitTimer > 0) player.hitTimer -= dt;
\* if (state.weaponCooldown > 0) state.weaponCooldown -= dt;
tickTimers(w, d) ==
  [w EXCEPT
     !.player.hitTimer = IF @ > 0 THEN @ - d ELSE @,
     !.weaponCooldown = IF @ > 0 THEN @ - d ELSE @]

\* if (isShooting && state.weaponCooldown <= 0) { spawnPlayerProjectile(...);
\*      state.weaponCooldown = weapon.fireRate; }
fireWeapon(w, in) ==
  IF in.isShooting /\ w.weaponCooldown <= 0
  THEN LET fired == spawnPlayerProjectile(w, w.player.x, in.aim, w.currentWeapon)
       IN [fired EXCEPT
             !.weaponCooldown = WEAPONS(w.currentWeapon).fireRate,
             !.audit.shots = Append(@,
                [weapon |-> w.currentWeapon, cooldown |-> w.weaponCooldown,
                 added |-> Len(fired.projectiles) - Len(w.projectiles)])]
  ELSE w

\* player.pos.x += player.vel.x * dt;  ...  if (player.pos.x < 0) player.pos.x = 0;
\* A squad threshold that stays where the player is.
nextThreshold_here(x, gap) == x

\* state.nextSquadSpawnX = state.player.pos.x + Math.max(800, gap)
nextThreshold(x, gap) == x + Max(MinSquadGap, gap)

\* const gap = 2500 - (planet.enemyDensity * 200) + (Math.random() * 800),
\* for the least and the greatest draw.
SquadGaps ==
  {SquadGapBase - SquadGapPerDensity * EnemyDensity + r : r \in {0, SquadGapSpread - 1}}

\* if (!state.bossActive) { if (state.player.pos.x > state.nextSquadSpawnX) {
squadDue(w) == ~w.bossActive /\ w.player.x > w.nextSquadSpawnX

\* The squad spawner of update. spawnSquad pushes the members of the squad at
\* camera.x + logicalWidth + 200 and further right, past the stretch of
\* ground the model follows: the squad is counted, its members are not
\* followed.
squadStep(w) ==
  IF squadDue(w)
  THEN {[w EXCEPT
           !.nextSquadSpawnX = nextThreshold(w.player.x, gap),
           !.squadSpawns = @ + 1,
           !.audit.squads = Append(@, [x |-> w.player.x, boss |-> w.bossActive,
                                       from |-> w.nextSquadSpawnX,
                                       to |-> nextThreshold(w.player.x, gap)])] :
          gap \in SquadGaps}
  ELSE {w}

movePlayer(w, in, d) ==
  [w EXCEPT !.player.x = Max(0, @ + in.inputX * d)]

\* HAZARD COLLISION LOGIC: `hazard` is the strip under the player before the
\* move of this frame; the player stands in its active band.
hazardEffects(w, hazard, hazardX) ==
  CASE hazard = "lava" ->
         IF w.frameCount % 20 = 0 THEN applyDamage(w, "lava", LavaDamage, 4) ELSE w
    [] hazard = "acid" ->
         IF w.frameCount % 30 = 0 THEN applyDamage(w, "acid", AcidDamage, 0) ELSE w
    [] hazard = "spikes" -> applyDamage(w, "spikes", SpikeDamage, 5)
    [] hazard = "geyser" ->
         IF (w.frameCount + hazardX * 50) % 300 < 100
            /\ w.player.x + 1 > hazardX /\ w.player.x < hazardX + 1
            /\ w.frameCount % 30 = 0
         THEN applyDamage(w, "geyser", GeyserDamage, 0) ELSE w
    [] hazard = "electric" ->
         IF w.frameCount % 40 = 0
         THEN applyDamage(w, "electric", ElectricDamage, 0) ELSE w
    [] OTHER -> w

\* -------------------------------------------------- update: enemy section
FireRange == 5           \* distToPlayer < 500
DashTrigger == 300       \* distToPlayer < 300
DashRelease == 450       \* distToPlayer > 450
DashTelegraph == 30      \* ent.attackTimer = 30
DefaultAggro == 300      \* stats.aggroRange || 300

\* The distance of a number of cells, in world units.
units(cells) == 100 * cells

\* const aggroRange = stats.aggroRange || 300
aggroRangeOf(archetype) ==
  IF ENEMY_STATS(archetype).aggroRange = 0 THEN DefaultAggro
  ELSE ENEMY_STATS(archetype).aggroRange
SummonArchetypes == {"crawler", "neutral"}

\* The drop test without the hysteresis factor.
beyondDropRange_noHysteresis(dist, aggroRange) == units(dist) > aggroRange

\* distToPlayer > dropRange, dropRange = aggroRange * 1.5
beyondDropRange(dist, aggroRange) == 2 * units(dist) > 3 * aggroRange

\* The generic aggro rule: idle -> alert -> chase -> idle.
aggroStep(e, dist, d) ==
  LET aggroRange == aggroRangeOf(e.archetype)
  IN IF e.archetype \in {"neutral", "guardian"} THEN e
     ELSE CASE e.aiState = "idle" ->
                 IF units(dist) < aggroRange
                 THEN [e EXCEPT !.aiState = "alert", !.alertTimer = AlertFrames]
                 ELSE e
            [] e.aiState = "alert" ->
                 IF e.alertTimer - d <= 0
                 THEN [e EXCEPT !.alertTimer = @ - d, !.aiState = "chase"]
                 ELSE [e EXCEPT !.alertTimer = @ - d]
            [] e.aiState \in {"chase", "charge"} ->
                 IF beyondDropRange(dist, aggroRange)
                 THEN [e EXCEPT !.aiState = "idle"] ELSE e
            [] OTHER -> e

\* The telegraph of a charging dasher handled as if it had always run out.
telegraphing_never(e) == FALSE

\* ent.attackTimer && ent.attackTimer > 0: the telegraph is still running.
telegraphing(e) == e.attackTimer > 0

\* The else branch of the charge rule runs: vel.x is set to the dash speed.
dashCommitted(e) ==
  e.archetype = "dasher" /\ e.aiState = "charge" /\ ~telegraphing(e)

\* Archetype behaviour that touches only the enemy itself (timers, stance).
archetypeStep(e, dist, d) ==
  CASE e.archetype = "sentinel" /\ e.aiState = "chase" ->
         [e EXCEPT !.attackTimer = IF @ > 0 THEN @ - 1 ELSE @]
    [] e.archetype = "dasher" /\ e.aiState = "chase" ->
         IF units(dist) < DashTrigger
         THEN [e EXCEPT !.aiState = "charge", !.attackTimer = DashTelegraph] ELSE e
    [] e.archetype = "dasher" /\ e.aiState = "charge" ->
         IF telegraphing(e) THEN [e EXCEPT !.attackTimer = @ - 1]
         ELSE IF units(dist) > DashRelease THEN [e EXCEPT !.aiState = "chase"] ELSE e
    [] e.archetype = "guardian" ->
         [e EXCEPT !.attackTimer = IF @ > 0 THEN @ - 1 ELSE @]
    [] e.archetype = "shielder" ->
         IF e.attackTimer - d <= 0
         THEN IF e.aiState = "chase"
              THEN [e EXCEPT !.aiState = "idle", !.attackTimer = 180]
              ELSE [e EXCEPT !.aiState = "chase", !.attackTimer = 300]
         ELSE [e EXCEPT !.attackTimer = @ - d]
    [] OTHER -> e

Sign(n) == IF n > 0 THEN 1 ELSE IF n < 0 THEN -1 ELSE 0

\* Attacks: the worlds after enemy i has fired or summoned (one per outcome
\* of the random draws), or the world itself when it does neither.
enemyAttack(w, i, d) ==
  LET e == w.enemies[i]
      dist == Abs(w.player.x - e.x)
      dir == Sign(w.player.x - e.x)
  IN CASE e.archetype = "sentinel" /\ e.aiState = "chase"
            /\ dist < FireRange /\ e.attackTimer <= 0 ->
            {[spawnEnemyProjectile(w, e.x, dir)
                EXCEPT !.enemies[i].attackTimer = SentinelCooldown]}
       [] e.archetype = "sandworm" /\ ~e.isBurrowed ->
            IF e.attackTimer > 0
            THEN {[w EXCEPT !.enemies[i].attackTimer = @ - d]}
            ELSE {[spawnEnemyProjectile(w, e.x, dir)
                     EXCEPT !.enemies[i].attackTimer = 100]}
       [] e.archetype = "guardian" /\ e.attackTimer <= 0 ->
            {[spawnEnemyProjectile(spawnEnemyProjectile(spawnEnemyProjectile(
                spawnEnemyProjectile(spawnEnemyProjectile(w, e.x, dir), e.x, dir),
                e.x, dir), e.x, dir), e.x, dir)
                EXCEPT !.enemies[i].attackTimer = 120]}
            \cup
            {[spawnEnemy(spawnEnemy(w, e.x, a1, "none", r1), e.x, a2, "none", r2)
                EXCEPT !.enemies[i].attackTimer = 240] :
                a1 \in SummonArchetypes, a2 \in SummonArchetypes,
                r1 \in BOOLEAN, r2 \in BOOLEAN}
       [] OTHER -> {w}

\* Variant of enemyContact without the hitTimer guard.
enemyContact_unguarded(w, i) ==
  IF checkCollision(w.player, w.enemies[i]) /\ w.enemies[i].archetype # "neutral"
  THEN [w EXCEPT
          !.player.health = @ - ContactDamage,
          !.player.hitTimer = INVULNERABILITY_FRAMES,
          !.hitStop = 5,
          !.audit.damage = Append(@, [src |-> "contact", before |-> w.player.health,
                                      after |-> w.player.health - ContactDamage,
                                      timer |-> w.player.hitTimer]),
          !.audit.deathSeen = @ \/ (w.player.health - ContactDamage <= 0)]
  ELSE w

\* The contact test with the archetype left out.
hostile_all(e) == TRUE

\* ent.archetype !== 'neutral'
hostile(e) == e.archetype # "neutral"

\* if (checkCollision(player, ent) && ent.archetype !== 'neutral') { ... }
enemyContact(w, i) ==
  IF checkCollision(w.player, w.enemies[i])
  THEN LET w1 == [w EXCEPT !.audit.touches = Append(@, w.enemies[i].archetype)]
       IN IF hostile(w.enemies[i])
          THEN applyDamage(w1, "contact", ContactDamage, 5)
          ELSE w1
  ELSE w

\* Variant of raisesVictory in which any enemy's death raises victory.
raisesVictory_any(e) == TRUE

\* if (ent.archetype === 'guardian') { onVictory(state.score, state.coresCollected); }
raisesVictory(e) == e.archetype = "guardian"

\* const dropChanceWeapon = ent.rarity === 'elite' ? 0.4 : 0.1;
dropChanceWeapon(e) == IF e.rarity = "elite" THEN 40 ELSE 10

\* const dropChanceHealth = ent.rarity === 'elite' ? 0.5 : 0.25;
dropChanceHealth(e) == IF e.rarity = "elite" THEN 50 ELSE 25

\* if (rand < dropChanceWeapon) { spawnLoot(..., 'weapon'); }
\* else if (rand < dropChanceHealth) { spawnLoot(..., 'health'); }
\* The loot types one death pushes, for the draw rand.
dropsOf(e, rand) ==
  IF rand < dropChanceWeapon(e) THEN {"weapon"}
  ELSE IF rand < dropChanceHealth(e) THEN {"health"}
  ELSE {}

\* The death test with the boundary left out.
isDead_strict(e) == e.health < 0

\* ent.health <= 0
isDead(e) == e.health <= 0

\* ent.pos.y > LOGICAL_HEIGHT + 300.  The vertical motion of an enemy is not
\* followed: the ground clamp and the hover rules keep it on the side of that
\* line on which it is.
belowWorld(e) == e.fallen

\* Variant of enemyDeath in which an enemy removed for falling is scored.
enemyDeath_fallScores(w, i) ==
  LET e == w.enemies[i]
      baseScore == ENEMY_STATS(e.archetype).score
      gain == IF e.rarity = "elite" THEN baseScore * 2 ELSE baseScore
      dead(rand) ==
        [w EXCEPT !.enemies[i].markedForDeletion = TRUE,
                  !.score = @ + gain,
                  !.hitStop = 3,
                  !.audit.kills = Append(@,
                     [archetype |-> e.archetype, rarity |-> e.rarity,
                      health |-> e.health, gain |-> gain,
                      weaponDue |-> rand < dropChanceWeapon(e),
                      healthDue |-> rand < dropChanceHealth(e),
                      drops |-> dropsOf(e, rand)])]
      dropped(rand, weapon) ==
        IF "weapon" \in dropsOf(e, rand) THEN spawnLoot(dead(rand), e.x, weapon)
        ELSE IF "health" \in dropsOf(e, rand) THEN spawnLoot(dead(rand), e.x, "health")
        ELSE dead(rand)
      won(v) == IF raisesVictory(e)
                THEN [v EXCEPT !.victoryCalls = Append(@,
                        [score |-> v.score, coresCollected |-> v.coresCollected])]
                ELSE v
  IN IF isDead(e)
     THEN {won(dropped(rand, weapon)) : rand \in Rolls, weapon \in LootWeapons}
     ELSE IF belowWorld(e)
     THEN {[w EXCEPT !.enemies[i].markedForDeletion = TRUE,
                     !.score = @ + gain,
                     !.audit.fell = Append(@, e.archetype)]}
     ELSE {w}

\* if (ent.pos.y > LOGICAL_HEIGHT + 300 || ent.health <= 0) {
\*   ent.markedForDeletion = true;
\*   if (ent.health <= 0) { score, loot drop, onVictory for the guardian,
\*                          hitStop = 3 } }
enemyDeath(w, i) ==
  LET e == w.enemies[i]
      baseScore == ENEMY_STATS(e.archetype).score
      gain == IF e.rarity = "elite" THEN baseScore * 2 ELSE baseScore
      dead(rand) ==
        [w EXCEPT !.enemies[i].markedForDeletion = TRUE,
                  !.score = @ + gain,
                  !.hitStop = 3,
                  !.audit.kills = Append(@,
                     [archetype |-> e.archetype, rarity |-> e.rarity,
                      health |-> e.health, gain |-> gain,
                      weaponDue |-> rand < dropChanceWeapon(e),
                      healthDue |-> rand < dropChanceHealth(e),
                      drops |-> dropsOf(e, rand)])]
      dropped(rand, weapon) ==
        IF "weapon" \in dropsOf(e, rand) THEN spawnLoot(dead(rand), e.x, weapon)
        ELSE IF "health" \in dropsOf(e, rand) THEN spawnLoot(dead(rand), e.x, "health")
        ELSE dead(rand)
      won(v) == IF raisesVictory(e)
                THEN [v EXCEPT !.victoryCalls = Append(@,
                        [score |-> v.score, coresCollected |-> v.coresCollected])]
                ELSE v
  IN IF isDead(e)
     THEN {won(dropped(rand, weapon)) : rand \in Rolls, weapon \in LootWeapons}
     ELSE IF belowWorld(e)
     THEN {[w EXCEPT !.enemies[i].markedForDeletion = TRUE,
                     !.audit.fell = Append(@, e.archetype)]}
     ELSE {w}

\* What enemy e did between the worlds w1 (before its attack), w2 (after it)
\* and w3 (after its contact test).
noteActs(w1, w2, w3, e) ==
  LET fired == Len(w2.projectiles) > Len(w1.projectiles)
      summoned == Len(w2.enemies) > Len(w1.enemies)
      hurt == w3.player.health < w2.player.health
  IN IF fired \/ summoned \/ hurt
     THEN [w3 EXCEPT !.audit.acts = Append(@,
             [archetype |-> e.archetype, health |-> e.health,
              fired |-> fired, summoned |-> summoned, hurt |-> hurt])]
     ELSE w3

\* One iteration of state.enemies.forEach.
enemyStep(w, i, d) ==
  LET e == w.enemies[i]
      dist == Abs(w.player.x - e.x)
      e0 == aggroStep(e, dist, d)
      e1 == archetypeStep(e0, dist, d)
      moved(a, b, rule) ==
        IF a.aiState = b.aiState THEN <<>>
        ELSE <<[archetype |-> e.archetype, from |-> a.aiState, to |-> b.aiState,
                dist |-> dist, alertTimer |-> b.alertTimer, by |-> rule]>>
      dasher ==
        IF e.archetype # "dasher" THEN <<>>
        ELSE <<[from |-> e.aiState, mid |-> e0.aiState, to |-> e1.aiState,
                dist |-> dist, timer |-> e0.attackTimer,
                timerAfter |-> e1.attackTimer, dashed |-> dashCommitted(e0)]>>
      w1 == [w EXCEPT !.enemies[i] = e1,
                      !.audit.moves = @ \o moved(e, e0, "aggro")
                                        \o moved(e0, e1, "archetype"),
                      !.audit.dashers = @ \o dasher]
  IN UNION {enemyDeath(noteActs(w1, w2, enemyContact(w2, i), e1), i) :
              w2 \in enemyAttack(w1, i, d)}

\* state.enemies.forEach over the n elements present when the loop starts.
RECURSIVE enemyLoop(_, _, _, _)
enemyLoop(ws, i, n, d) ==
  IF i > n THEN ws
  ELSE enemyLoop(UNION {enemyStep(w, i, d) : w \in ws}, i + 1, n, d)

\* --------------------------------------------- update: projectile section
\* hitFromFront = (facingRight && proj.vel.x < 0) || (!facingRight && proj.vel.x > 0).
\* An enemy is pushed with facingRight: false and the enemy loop sets
\* facingRight = vel.x > 0 in every update; the horizontal velocity is below
\* the cell resolution, so an enemy keeps the facing of its start state for
\* the frames that are followed (the sign of a velocity it keeps).
hitFromFront(enemy, proj) ==
  \/ enemy.facingRight /\ proj.vx < 0
  \/ ~enemy.facingRight /\ proj.vx > 0

\* damageBlocked with the stance test left out.
damageBlocked_anyStance(enemy, proj) ==
  \/ enemy.archetype = "shielder" /\ hitFromFront(enemy, proj)
  \/ enemy.archetype = "sandworm" /\ enemy.isBurrowed

damageBlocked(enemy, proj) ==
  \/ enemy.archetype = "shielder" /\ enemy.aiState = "chase"
       /\ hitFromFront(enemy, proj)
  \/ enemy.archetype = "sandworm" /\ enemy.isBurrowed

\* Math.ceil(10 * wStats.damageMult * damageMult)
finalDmg(weapon) == (WEAPONS(weapon).damageMult * damageMultFifths + 4) \div 5

\* The body of state.enemies.forEach(enemy => ...) for player projectile j.
projectileHit(w, j, k) ==
  LET proj == w.projectiles[j]
      enemy == w.enemies[k]
      hit(dmg, blocked) ==
        [weapon |-> proj.weaponType, vx |-> proj.vx, archetype |-> enemy.archetype,
         front |-> hitFromFront(enemy, proj),
         aiState |-> enemy.aiState, health |-> enemy.health,
         dmg |-> dmg, blocked |-> blocked, destroyed |-> blocked \/ ~(proj.pierceCount > 0)]
  IN IF ~enemy.markedForDeletion /\ ~proj.markedForDeletion
        /\ checkCollisionInflated(proj, enemy, Padding)
     THEN IF damageBlocked(enemy, proj)
          THEN [w EXCEPT !.projectiles[j].markedForDeletion = TRUE,
                         !.audit.hits = Append(@, hit(0, TRUE))]
          ELSE IF proj.isExplosive
          THEN [spawnExplosion(w, proj.x)
                  EXCEPT !.projectiles[j].markedForDeletion = TRUE,
                         !.audit.bursts = Append(@, [proj |-> j, at |-> "enemy"])]
          ELSE [w EXCEPT
                  !.audit.hits = Append(@, hit(finalDmg(proj.weaponType), FALSE)),
                  !.audit.moves =
                     IF enemy.aiState = "idle"
                     THEN Append(@, [archetype |-> enemy.archetype,
                                     from |-> "idle", to |-> "chase",
                                     dist |-> Abs(w.player.x - enemy.x),
                                     alertTimer |-> enemy.alertTimer,
                                     by |-> "hit"])
                     ELSE @,
                  !.enemies[k].health = @ - finalDmg(proj.weaponType),
                  !.enemies[k].aiState = IF @ = "idle" THEN "chase" ELSE @,
                  !.projectiles[j].pierceCount = IF @ > 0 THEN @ - 1 ELSE @,
                  !.projectiles[j].struck = Append(@, enemy.x),
                  !.projectiles[j].markedForDeletion = ~(proj.pierceCount > 0)]
     ELSE w

RECURSIVE projectileHits(_, _, _)
projectileHits(w, j, k) ==
  IF k > Len(w.enemies) THEN w
  ELSE projectileHits(projectileHit(w, j, k), j, k + 1)

\* else if (proj.type === 'enemy_projectile') { if (checkCollision(proj, player)) ... }
enemyProjectileHit(w, j) ==
  IF checkCollisionProjectile(w.projectiles[j], w.player)
  THEN [applyDamage(w, "enemy_projectile", EnemyProjectileDamage, 4)
          EXCEPT !.projectiles[j].markedForDeletion = TRUE]
  ELSE w

\* Off-screen removal and the ground check (with the ground explosion).
projectileBounds(w, j) ==
  LET proj == w.projectiles[j]
      off == Abs(proj.x - w.player.x) > LogicalWidth
      below == proj.y > GroundY
      w1 == [w EXCEPT !.projectiles[j].markedForDeletion = @ \/ off \/ below]
  IN IF below /\ proj.isExplosive
     THEN [spawnExplosion(w1, proj.x) EXCEPT
             !.audit.markedHits = IF proj.markedForDeletion
                                  THEN @ \cup {"projectile_explosion"} ELSE @,
             !.audit.bursts = Append(@, [proj |-> j, at |-> "ground"])]
     ELSE w1

\* One iteration of state.projectiles.forEach.
projectileStep(w, j, d) ==
  LET p0 == w.projectiles[j]
      vy1 == p0.vy + (IF p0.weaponType = "none" THEN 0
                      ELSE WEAPONS(p0.weaponType).gravity * d)
      p1 == [p0 EXCEPT !.vy = vy1, !.x = @ + p0.vx * d, !.y = @ + vy1 * d]
      w1 == [w EXCEPT !.projectiles[j] = p1]
      w2 == IF p1.type = "projectile" THEN projectileHits(w1, j, 1)
            ELSE enemyProjectileHit(w1, j)
  IN projectileBounds(w2, j)

RECURSIVE projectileLoop(_, _, _, _)
projectileLoop(w, j, n, d) ==
  IF j > n THEN w ELSE projectileLoop(projectileStep(w, j, d), j + 1, n, d)

\* --------------------------------------------------- update: loot section
hazardAt(x) == IF x \in DOMAIN hazards THEN hazards[x] ELSE "none"

\* The lava check of the loot loop.  An item that is still falling may end a
\* frame below gY - 10 (the outcome depends on its vertical speed, which is
\* not modelled): both outcomes are kept.  A landed item rests on the surface.
\* item.pos.x > h.x && item.pos.x < h.x + h.width: a core, which never moves
\* sideways, is strictly inside a segment unless (segments * segmentWidth) *
\* (i + 1) / (totalCoresNeeded + 1) falls on a segment boundary; a drop, thrown
\* with a random vel.x, is inside one.
onBoundary(item) ==
  item.lootType = "core" /\ (item.x * (totalCoresNeeded + 1)) % WorldMax = 0

lootLava(w, k, d) ==
  LET item == w.loot[k]
      settled == [w EXCEPT !.loot[k].landed = @ \/ d > 0]
  IN IF ~item.landed /\ d > 0 /\ hazardAt(item.x) = "lava" /\ ~onBoundary(item)
     THEN {settled, [settled EXCEPT !.loot[k].markedForDeletion = TRUE]}
     ELSE {settled}

\* Variant of bossDue that calls for the boss at the first core.
bossDue_firstCore(w) == w.coresCollected >= 1

\* if (state.coresCollected >= state.totalCoresNeeded) { spawnBoss(); }
bossDue(w) == w.coresCollected >= totalCoresNeeded

\* A health pickup that adds its 20 points without looking at maxHealth.
healed_uncapped(p) == p.health + HealthPickup

\* player.health = Math.min(player.maxHealth, player.health + 20);
healed(p) == Min(p.maxHealth, p.health + HealthPickup)

\* if (checkCollision(player, item)) { item.markedForDeletion = true; ... }
lootPickup(w, k) ==
  LET item == w.loot[k]
      taken == [w EXCEPT
                  !.loot[k].markedForDeletion = TRUE,
                  !.audit.markedHits = IF item.markedForDeletion
                                       THEN @ \cup {"loot_pickup"} ELSE @]
  IN IF ~checkCollision(w.player, item) THEN w
     ELSE CASE item.lootType = "core" ->
                 LET got == [taken EXCEPT !.coresCollected = @ + 1,
                                          !.score = @ + CoreScore]
                 IN IF bossDue(got) THEN spawnBoss(got) ELSE got
            [] item.lootType = "weapon" ->
                 [taken EXCEPT
                    !.currentWeapon = item.weaponType,
                    !.audit.swaps = Append(@,
                       [from |-> w.currentWeapon, to |-> item.weaponType,
                        cooldown |-> w.weaponCooldown])]
            [] OTHER ->
                 [taken EXCEPT
                    !.player.health = healed(w.player),
                    !.audit.pickups = Append(@, [before |-> w.player.health,
                                                 after |-> healed(w.player)])]

RECURSIVE lootLoop(_, _, _, _)
lootLoop(ws, k, n, d) ==
  IF k > n THEN ws
  ELSE lootLoop(UNION {{lootPickup(w1, k) : w1 \in lootLava(w, k, d)} : w \in ws},
                k + 1, n, d)

\* ------------------------------------------- update: compaction, terminal
Live(e) == ~e.markedForDeletion

\* Variant of compact that leaves the loot collection unfiltered.
compact_keepsLoot(w) ==
  LET es == SelectSeq(w.enemies, Live)
      ps == SelectSeq(w.projectiles, Live)
  IN [w EXCEPT
        !.enemies = es, !.projectiles = ps,
        !.audit.removed = (Len(w.enemies) - Len(es))
                          + (Len(w.projectiles) - Len(ps)),
        !.frameCount = @ + 1]

\* state.enemies = state.enemies.filter(e => !e.markedForDeletion); ...
\* state.frameCount++
compact(w) ==
  LET es == SelectSeq(w.enemies, Live)
      ps == SelectSeq(w.projectiles, Live)
      ls == SelectSeq(w.loot, Live)
  IN [w EXCEPT
        !.enemies = es, !.projectiles = ps, !.loot = ls,
        !.audit.removed = (Len(w.enemies) - Len(es))
                          + (Len(w.projectiles) - Len(ps))
                          + (Len(w.loot) - Len(ls)),
        !.frameCount = @ + 1]

\* if (player.health <= 0) { state.isPlaying = false; onGameOver(...) }
terminal(w) ==
  IF w.player.health <= 0
  THEN [w EXCEPT
          !.isPlaying = FALSE,
          !.gameOverCalls = Append(@, [score |-> w.score,
                                       coresCollected |-> w.coresCollected])]
  ELSE w

\* ------------------------------------------------------- updateWeather(dt)
IntensityOne == 1000     \* weatherIntensity 1, in thousandths
DayCycle == 10000        \* timeOfDay 1, in ten-thousandths (dt * 0.0001)
MissionTimeOfDay == 1500 \* state.timeOfDay = 0.15
BuildupFrames == 300
IdleBuildupFrames == 500 \* buildup entered with no bad weather to choose
ClearFrames == 500
ActiveFrames == 600
FadingFrames == 300
MissionWeatherTimer == 400

\* planet.weatherTraits.filter(t => t !== 'clear')
badWeather(traits) == SelectSeq(traits, LAMBDA t : t # "clear")

\* Variant of nextPhase in which the active phase ends in clear at once.
nextPhase_skipsFading(ph) ==
  CASE ph = "clear" -> "buildup"
    [] ph = "buildup" -> "active"
    [] OTHER -> "clear"

\* The phase each branch of the state machine assigns.
nextPhase(ph) ==
  CASE ph = "clear" -> "buildup"
    [] ph = "buildup" -> "active"
    [] ph = "active" -> "fading"
    [] OTHER -> "clear"

\* if (state.timeOfDay > 1)
wraps(t) == t > DayCycle

\* state.timeOfDay += dt * 0.0001; if (state.timeOfDay > 1) state.timeOfDay = 0;
dayCycle(t, d) == IF wraps(t + d) THEN 0 ELSE t + d

\* The trigger of bad weather with the test of the traits list left out.
hasTraits_any(p) == TRUE

\* planet.weatherTraits.length > 0
hasTraits(p) == Len(p.weatherTraits) > 0

\* The weather state machine, run when the phase timer has expired: the
\* records it can leave, one per outcome of its random draws.
weatherPhase(wx, p) ==
  CASE wx.weatherState = "clear" ->
         \* Math.random() < 0.5 * volatility && weatherTraits.length > 0
         (IF hasTraits(p)
          THEN IF Len(badWeather(p.weatherTraits)) > 0
               THEN {[wx EXCEPT !.weatherState = nextPhase(@),
                                !.currentWeather = badWeather(p.weatherTraits)[k],
                                !.weatherTimer = BuildupFrames] :
                       k \in 1..Len(badWeather(p.weatherTraits))}
               ELSE {[wx EXCEPT !.weatherState = nextPhase(@),
                                !.weatherTimer = IdleBuildupFrames]}
          ELSE {})
         \cup {[wx EXCEPT !.weatherTimer = t] : t \in {ClearFrames, 2 * ClearFrames - 1}}
    [] wx.weatherState = "buildup" ->
         {[wx EXCEPT !.weatherState = nextPhase(@), !.weatherTimer = t] :
            t \in {ActiveFrames, ActiveFrames + 100 * p.weatherVolatility - 1}}
    [] wx.weatherState = "active" ->
         {[wx EXCEPT !.weatherState = nextPhase(@), !.weatherTimer = FadingFrames]}
    [] OTHER ->
         {[wx EXCEPT !.weatherState = nextPhase(@), !.currentWeather = "clear",
                     !.weatherTimer = ClearFrames]}

\* Variant of clampIntensity without the clamp.
clampIntensity_none(x) == x

\* state.weatherIntensity = Math.max(0, Math.min(1, state.weatherIntensity))
clampIntensity(x) == Max(0, Min(IntensityOne, x))

\* The intensity ramp of the phase in force after the state machine has run.
weatherRamp(wx, d) ==
  LET i == wx.weatherIntensity
      ramped == CASE wx.weatherState = "buildup" -> i + 2 * d
                  [] wx.weatherState = "active" -> Min(IntensityOne, i + d)
                  [] wx.weatherState = "fading" -> i - 2 * d
                  [] OTHER -> Max(0, i - 5 * d)
  IN [wx EXCEPT !.weatherIntensity = clampIntensity(ramped)]

\* Variant of phaseDue that fires one frame early.
phaseDue_early(wx) == wx.weatherTimer <= 1

\* if (state.weatherTimer <= 0) { ... }
phaseDue(wx) == wx.weatherTimer <= 0

\* updateWeather, weather state machine and intensity (the day cycle and the
\* weather particles are left out).  `seen` keeps the phase and kind found on
\* entry and the phase timer as it was tested.
updateWeather(wx, p, d) ==
  LET ticked == [wx EXCEPT !.weatherTimer = @ - d]
      look(t) == [state |-> wx.weatherState, kind |-> wx.currentWeather, timer |-> t]
      staged ==
        IF p.weatherVolatility > 0
        THEN IF phaseDue(ticked)
             THEN {[n EXCEPT !.seen = look(ticked.weatherTimer)] :
                     n \in weatherPhase(ticked, p)}
             ELSE {[ticked EXCEPT !.seen = look(ticked.weatherTimer)]}
        ELSE {[wx EXCEPT !.weatherState = "clear", !.currentWeather = "clear",
                         !.seen = look(wx.weatherTimer)]}
  IN {weatherRamp(n, d) : n \in staged}

\* ------------------------------------------------------------ update(dt)
\* Variant of hitStopFrame that also advances frameCount.
hitStopFrame_ticks(w) ==
  [w EXCEPT !.hitStop = @ - 1, !.frameCount = @ + 1, !.audit.path = "hitStop"]

\* if (state.hitStop > 0) { state.hitStop -= 1; return; }
hitStopFrame(w) ==
  [w EXCEPT !.hitStop = @ - 1, !.audit.path = "hitStop"]

\* The worlds update(dt) can leave behind, one per outcome of its random
\* draws, from world w under the input snapshot `in`.
update(w, d, in) ==
  IF w.hitStop > 0
  THEN {hitStopFrame(w)}
  ELSE IF w.introTimer > 0
  THEN LET t == w.introTimer - d
       IN {[w EXCEPT !.introTimer = t, !.audit.path = "intro"]}
          \cup (IF t > IntroLanded
                THEN {[w EXCEPT !.introTimer = IntroLanded, !.audit.path = "intro"]}
                ELSE {})
  ELSE LET hazardX == w.player.x
           hazard == hazardAt(hazardX)
           w0 == tickTimers([w EXCEPT
                               !.audit.path = "frame",
                               !.audit.cooldown = w.weaponCooldown,
                               !.audit.score = w.score,
                               !.audit.dying = Cardinality(
                                  {i \in 1..Len(w.enemies) : w.enemies[i].health <= 0})],
                            d)
           w1 == fireWeapon([w0 EXCEPT !.audit.health = w0.player.health,
                                       !.audit.timer = w0.player.hitTimer], in)
           w2 == hazardEffects(movePlayer(w1, in, d), hazard, hazardX)
           afterEnemies == enemyLoop(squadStep(w2), 1, Len(w2.enemies), d)
           afterProjectiles == {projectileLoop(w3, 1, Len(w3.projectiles), d) :
                                  w3 \in afterEnemies}
           afterLoot == UNION {lootLoop({w4}, 1, Len(w4.loot), d) :
                                 w4 \in afterProjectiles}
       IN {terminal(compact(w5)) : w5 \in afterLoot}

\* ------------------------------------------------------------------ loop
RawDeltas == {0, 1} \cup MaxDt..MaxRawDelta

\* Variant of clampDt that passes the raw delta through.
clampDt_identity(raw) == raw

\* update(dt > 4 ? 1 : dt)
clampDt(raw) == IF raw > MaxDt THEN FallbackDt ELSE raw

InputX == {0, 1}
Aims == {[x |-> 1, y |-> 0], [x |-> -1, y |-> 0], [x |-> 1, y |-> 1]}
Idle == [inputX |-> 0, isShooting |-> FALSE, aim |-> [x |-> 1, y |-> 0]]

\* The input snapshots that make a difference to this frame.
Inputs ==
  IF hitStop > 0 \/ introTimer > 0 THEN {Idle}
  ELSE {[inputX |-> ix, isShooting |-> FALSE, aim |-> Idle.aim] : ix \in InputX}
       \cup (IF weaponCooldown <= MaxDt
             THEN {[inputX |-> ix, isShooting |-> TRUE, aim |-> a] :
                     ix \in InputX, a \in Aims}
             ELSE {})

World ==
  [player |-> player, weaponCooldown |-> weaponCooldown,
   currentWeapon |-> currentWeapon, enemies |-> enemies,
   projectiles |-> projectiles, loot |-> loot, score |-> score,
   coresCollected |-> coresCollected, frameCount |-> frameCount,
   isPlaying |-> isPlaying, bossActive |-> bossActive,
   introTimer |-> introTimer, hitStop |-> hitStop,
   gameOverCalls |-> gameOverCalls, victoryCalls |-> victoryCalls,
   bossSpawns |-> bossSpawns, nextSquadSpawnX |-> nextSquadSpawnX,
   squadSpawns |-> squadSpawns, audit |-> NoAudit]

Commit(w) ==
  /\ player' = w.player
  /\ weaponCooldown' = w.weaponCooldown
  /\ currentWeapon' = w.currentWeapon
  /\ enemies' = w.enemies
  /\ projectiles' = w.projectiles
  /\ loot' = w.loot
  /\ score' = w.score
  /\ coresCollected' = w.coresCollected
  /\ frameCount' = w.frameCount
  /\ isPlaying' = w.isPlaying
  /\ bossActive' = w.bossActive
  /\ introTimer' = w.introTimer
  /\ hitStop' = w.hitStop
  /\ gameOverCalls' = w.gameOverCalls
  /\ victoryCalls' = w.victoryCalls
  /\ bossSpawns' = w.bossSpawns
  /\ nextSquadSpawnX' = w.nextSquadSpawnX
  /\ squadSpawns' = w.squadSpawns
  /\ audit' = w.audit

\* The projectiles one shot pushes, for the largest volley in the world.
Volley(w) ==
  IF w.currentWeapon = "scatter"
     \/ \E j \in 1..Len(w.projectiles) : w.projectiles[j].weaponType = "scatter"
  THEN WEAPONS("scatter").count ELSE 1

InBounds(w) ==
  /\ Len(w.enemies) <= MaxEnemies
  /\ Len(w.projectiles) <= MaxProjectiles * Volley(w)
  /\ w.player.x <= WorldMax

\* const loop = (time) => { if (!state.isPlaying) return; ...;
\*                          update(dt > 4 ? 1 : dt); ... }
Loop ==
  /\ isPlaying
  /\ hitStop > 0 \/ introTimer > 0 \/ frameCount < frameLimit
  /\ \E raw \in RawDeltas, in \in Inputs :
        \E w \in update(World, clampDt(raw), in) :
           /\ InBounds(w)
           /\ Commit(w)
           /\ rawDelta' = raw
           /\ dt' = clampDt(raw)
           \* updateWeather(dt), the first call of the simulation part
           /\ IF hitStop > 0 \/ introTimer > 0
              THEN weather' = weather
              ELSE weather' \in updateWeather(weather, planet, clampDt(raw))
  \* (the day cycle of updateWeather, which only the sky rendering reads, is
  \* followed by the action DayFrame)
  /\ UNCHANGED <<hazards, totalCoresNeeded, frameLimit, planet, timeOfDay, gen,
                 radio, flight>>

\* The weather machine of the updateWeather call of one simulation frame, the
\* day cycle and the rest of the frame left aside: the weather machine depends
\* on nothing but dt and the planet.
WeatherFrame ==
  /\ \E raw \in RawDeltas :
        /\ weather' \in updateWeather(weather, planet, clampDt(raw))
        /\ rawDelta' = raw
        /\ dt' = clampDt(raw)
  /\ UNCHANGED <<simVars, hazards, totalCoresNeeded, gameOverCalls, victoryCalls,
                 bossSpawns, audit, frameLimit, planet, timeOfDay, gen, radio, flight>>

\* The day cycle of the updateWeather call of one simulation frame, the rest
\* of the frame left aside: timeOfDay depends on nothing but dt.
DayFrame ==
  /\ \E raw \in RawDeltas :
        /\ timeOfDay' = dayCycle(timeOfDay, clampDt(raw))
        /\ rawDelta' = raw
        /\ dt' = clampDt(raw)
  /\ UNCHANGED <<simVars, hazards, totalCoresNeeded, gameOverCalls, victoryCalls,
                 bossSpawns, audit, frameLimit, planet, weather, gen, radio, flight>>

\* ------------------------------------------------- jumping and the jetpack
\* Heights, velocities and fuel are in tenths of a unit; planet.gravity is 1.
MaxFlightFrames == 5     \* updates of the vertical motion in one exploration
JUMP_FORCE == 100
JETPACK_FORCE == 6
JETPACK_FUEL_CONSUMPTION == 15
JETPACK_FUEL_RECHARGE == 30
GRAVITY == 5
COYOTE_FRAMES == 8
maxFuelBase == 1000      \* 100 * fuelCapacityMult, thrusters at level 1

Keys == [jump : BOOLEAN, jetpack : BOOLEAN]
NoKeys == [jump |-> FALSE, jetpack |-> FALSE]

\* The player standing on the ground.
Flight0 ==
  [height |-> 0, vy |-> 0, isGrounded |-> TRUE, coyoteTimer |-> COYOTE_FRAMES,
   jumpLock |-> FALSE, fuel |-> maxFuelBase, maxFuel |-> maxFuelBase,
   keys |-> NoKeys, impulse |-> FALSE, thrust |-> FALSE,
   airborne |-> FALSE, held |-> FALSE, frames |-> 0]

\* canJump without the jump lock.
canJump_unlocked(f) == f.isGrounded \/ f.coyoteTimer > 0

\* const canJump = (player.isGrounded || (player.coyoteTimer &&
\*                  player.coyoteTimer > 0)) && !state.jumpLock;
canJump(f) == (f.isGrounded \/ f.coyoteTimer > 0) /\ ~f.jumpLock

\* if (player.isGrounded) { player.coyoteTimer = PHYSICS.COYOTE_FRAMES; }
\* else if (player.coyoteTimer && player.coyoteTimer > 0) { player.coyoteTimer -= dt; }
coyoteStep(f, d) ==
  [f EXCEPT !.coyoteTimer = IF f.isGrounded THEN COYOTE_FRAMES
                            ELSE IF @ > 0 THEN @ - d ELSE @]

\* if (isJumpPressed && canJump) { player.vel.y = -PHYSICS.JUMP_FORCE *
\*   (1 / planet.gravity); player.isGrounded = false; player.coyoteTimer = 0;
\*   state.jumpLock = true; }
\* if (!isJumpPressed) { state.jumpLock = false; }
jumpStep(f, keys) ==
  LET jumped == keys.jump /\ canJump(f)
      f1 == IF jumped
            THEN [f EXCEPT !.vy = -JUMP_FORCE, !.isGrounded = FALSE,
                           !.coyoteTimer = 0, !.jumpLock = TRUE]
            ELSE f
  IN [f1 EXCEPT !.jumpLock = IF keys.jump THEN @ ELSE FALSE,
                !.impulse = jumped]

\* if (player.isGrounded && ... && !isJetpackPressed) { if (player.fuel <
\*   player.maxFuel) { player.fuel = Math.min(player.maxFuel, player.fuel +
\*   PHYSICS.JETPACK_FUEL_RECHARGE * dt); } }
rechargeStep(f, keys, d) ==
  IF f.isGrounded /\ ~keys.jetpack /\ f.fuel < f.maxFuel
  THEN [f EXCEPT !.fuel = Min(f.maxFuel, @ + JETPACK_FUEL_RECHARGE * d)]
  ELSE f

\* if (isJetpackPressed && ... && player.fuel > 0) { player.vel.y -=
\*   PHYSICS.JETPACK_FORCE * (1 / planet.gravity) * dt; player.fuel -=
\*   PHYSICS.JETPACK_FUEL_CONSUMPTION * dt; player.isGrounded = false; }
jetpackStep(f, keys, d) ==
  IF keys.jetpack /\ f.fuel > 0
  THEN [f EXCEPT !.vy = @ - JETPACK_FORCE * d,
                 !.fuel = @ - JETPACK_FUEL_CONSUMPTION * d,
                 !.isGrounded = FALSE, !.thrust = TRUE]
  ELSE [f EXCEPT !.thrust = FALSE]

\* player.vel.y += PHYSICS.GRAVITY * planet.gravity * dt;
\* player.pos.y += player.vel.y * dt;
\* if (player.pos.y + player.size.y >= groundY) { player.pos.y = groundY -
\*   player.size.y; player.vel.y = 0; player.isGrounded = true; }
\* else { player.isGrounded = false; }
fallStep(f, d) ==
  LET vy == f.vy + GRAVITY * d
      height == f.height - vy * d
  IN IF height <= 0
     THEN [f EXCEPT !.height = 0, !.vy = 0, !.isGrounded = TRUE]
     ELSE [f EXCEPT !.height = height, !.vy = vy, !.isGrounded = FALSE]

\* The vertical part of the player section of update(dt), on level ground
\* free of hazards, with what it leaves for the next update to compare:
\* airborne (an impulse was applied and the player has not been grounded
\* since) and held (the jump key has been down ever since the last impulse).
flightStep(f, keys, d) ==
  LET f1 == jumpStep(coyoteStep(f, d), keys)
      f2 == fallStep(jetpackStep(rechargeStep(f1, keys, d), keys, d), d)
  IN [f2 EXCEPT !.keys = keys,
                !.airborne = ~f2.isGrounded /\ (f1.impulse \/ f.airborne),
                !.held = f1.impulse \/ (f.held /\ keys.jump),
                !.frames = @ + 1]

\* The player section of one simulation frame, the rest of the frame left
\* aside: the vertical motion depends on nothing but dt and the keys.
FlightFrame ==
  /\ flight.frames < MaxFlightFrames
  /\ \E raw \in RawDeltas, keys \in Keys :
        /\ flight' = flightStep(flight, keys, clampDt(raw))
        /\ rawDelta' = raw
        /\ dt' = clampDt(raw)
  /\ UNCHANGED <<simVars, hazards, totalCoresNeeded, gameOverCalls, victoryCalls,
                 bossSpawns, audit, frameLimit, planet, weather, timeOfDay, gen,
                 radio>>

\* ------------------------------------------------------ radio messages
MaxMessages == 4         \* messages queued in one exploration
MessageLife == 600       \* life: 6, in hundredths
LifeTick == 5            \* state.currentMessage.life -= 0.05

\* text.length of the messages that update and the landing timeout queue
\* (the landing text with the fallback planet's name, the weather text with
\* 'ACID_RAIN').
TextLength(text) ==
  CASE text = "landing" -> 46
    [] text = "cores" -> 41
    [] text = "first core" -> 51
    [] text = "seismic" -> 38
    [] text = "guardian" -> 41
    [] text = "weather" -> 45

\* The messages one handler queues, in the order of its queueMessage calls:
\* the landing timeout, a core pickup (the first core, the last core through
\* spawnBoss) and the weather build-up.
MessageBatches ==
  {<<"first core">>, <<"seismic", "guardian">>, <<"weather">>}

LandingBatch == <<"landing", "cores">>

\* queueMessage with the text put in front of the queue.
queueMessage_front(r, text) ==
  [r EXCEPT !.messageQueue = <<text>> \o @, !.sent = Append(@, text)]

\* gameState.current.messageQueue.push(text); sent is the record of every
\* text queued so far.
queueMessage(r, text) ==
  [r EXCEPT !.messageQueue = Append(@, text), !.sent = Append(@, text)]

RECURSIVE queueAll(_, _)
queueAll(r, texts) ==
  IF texts = <<>> THEN r
  ELSE queueAll(queueMessage(r, Head(texts)), Tail(texts))

\* The callback of the radio setInterval. currentMessage is <<>> for null;
\* typewriter is the length of the prefix shown; shown is the record of the
\* texts that became the current message, busy whether a message was current
\* when the last shift() ran.
radioTick(r) ==
  IF r.currentMessage # <<>>
  THEN LET m == r.currentMessage[1]
           m1 == [m EXCEPT !.life = @ - LifeTick,
                           !.typewriter = IF @ < TextLength(m.text)
                                          THEN @ + 1 ELSE @]
       IN IF m1.life <= 0 THEN [r EXCEPT !.currentMessage = <<>>]
          ELSE [r EXCEPT !.currentMessage = <<m1>>]
  ELSE IF Len(r.messageQueue) > 0
  THEN LET next == Head(r.messageQueue)
       IN [r EXCEPT !.messageQueue = Tail(@),
                    !.currentMessage =
                       <<[text |-> next, life |-> MessageLife, typewriter |-> 0]>>,
                    !.shown = Append(@, next),
                    !.busy = (r.currentMessage # <<>>)]
  ELSE r

\* state.messageQueue = []; state.currentMessage = null;
Radio0 ==
  [messageQueue |-> <<>>, currentMessage |-> <<>>, sent |-> <<>>,
   shown |-> <<>>, busy |-> FALSE, landed |-> FALSE]

radioRest == <<simVars, hazards, totalCoresNeeded, gameOverCalls, victoryCalls,
               bossSpawns, rawDelta, dt, audit, frameLimit, planet, weather,
               timeOfDay, gen, flight>>

RadioTick ==
  /\ radio' = radioTick(radio)
  /\ UNCHANGED radioRest

\* The callback of the setTimeout of the mission-init effect.
LandingTimeout ==
  /\ ~radio.landed
  /\ Len(radio.sent) + Len(LandingBatch) <= MaxMessages
  /\ radio' = [queueAll(radio, LandingBatch) EXCEPT !.landed = TRUE]
  /\ UNCHANGED radioRest

\* The queueMessage calls of one update, the rest of the frame left aside:
\* the queue depends on nothing but the texts pushed.
FrameMessages ==
  /\ \E batch \in MessageBatches :
        /\ Len(radio.sent) + Len(batch) <= MaxMessages
        /\ radio' = queueAll(radio, batch)
  /\ UNCHANGED radioRest

\* ------------------------------------------------------------------ Init
HazardCell == 6
\* Two adjacent hazard segments of one kind, under the player and the last guard.
HazardMaps ==
  {[c \in Cells |-> IF c \in {HazardCell, HazardCell + 1} THEN kind ELSE "none"] :
     kind \in HazardTypes}

Player0 == [x |-> 0, health |-> maxHealth, maxHealth |-> maxHealth, hitTimer |-> 0]

\* A core guard of the mission-init effect: elite, twice the archetype's hp.
Guard(arch, x, hp) ==
  [archetype |-> arch, rarity |-> "elite", x |-> x, health |-> hp,
   maxHealth |-> ENEMY_STATS(arch).hp * 2, aiState |-> "idle",
   attackTimer |-> 0, alertTimer |-> 0, isBurrowed |-> FALSE,
   facingRight |-> FALSE, fallen |-> FALSE,
   markedForDeletion |-> FALSE]

Core(i, landed) ==
  [lootType |-> "core", weaponType |-> "none", x |-> (i + 1) * CoreSpacing,
   landed |-> landed, markedForDeletion |-> FALSE]

GuardArchetypes == {"sentinel", "dasher"}

\* No squad is due within the frames explored: the threshold of mission
\* start, or the one left by a squad spawned where the player stands.
NoSquadNear ==
  /\ nextSquadSpawnX = (IF frameCount = 0 THEN FirstSquadX
                        ELSE nextThreshold(player.x, SquadGapBase))
  /\ squadSpawns = (IF frameCount = 0 THEN 0 ELSE 1)

QuietWith(total) ==
  /\ totalCoresNeeded = total
  /\ isPlaying = TRUE
  /\ hitStop = 0
  /\ projectiles = <<>>
  /\ gameOverCalls = <<>>
  /\ victoryCalls = <<>>
  /\ rawDelta = 0
  /\ dt = 0
  /\ audit = NoAudit
  /\ frameLimit = frameCount + MaxFrames

Quiet == QuietWith(coresNeeded)

\* The state the mission-init effect builds.
MissionStart ==
  /\ player = Player0
  /\ weaponCooldown = 0
  /\ currentWeapon = "blaster"
  /\ \E a2 \in GuardArchetypes, a3 \in GuardArchetypes :
        enemies = <<Guard(a2, 3 * CoreSpacing + 1, ENEMY_STATS(a2).hp * 2),
                    Guard(a3, 4 * CoreSpacing + 1, ENEMY_STATS(a3).hp * 2)>>
  /\ loot = [i \in 1..coresNeeded |-> Core(i - 1, FALSE)]
  /\ score = 0
  /\ coresCollected = 0
  /\ frameCount = 0
  /\ bossActive = FALSE
  /\ bossSpawns = 0
  /\ introTimer = IntroFrames
  /\ hazards = [c \in Cells |-> IF c = 1 THEN "spikes" ELSE "none"]
  /\ Quiet

\* A mission in which all cores but the last are collected: the player stands
\* two cells before the last core, whose guard is still alive.
LateMission ==
  /\ \E h \in {maxHealth, ContactDamage} :
        player = [Player0 EXCEPT !.x = HazardCell, !.health = h]
  /\ weaponCooldown = 0
  /\ currentWeapon \in {"blaster", "launcher"}
  /\ \E a \in GuardArchetypes :
        \E hp \in {ENEMY_STATS(a).hp * 2, 10} :
           enemies = <<Guard(a, HazardCell + 1, hp)>>
  /\ loot = <<Core(coresNeeded - 1, TRUE)>>
  /\ coresCollected = coresNeeded - 1
  /\ score = CoreScore * coresCollected + 2 * ENEMY_STATS("crawler").score
  /\ frameCount = 119
  /\ bossActive = FALSE
  /\ bossSpawns = 0
  /\ introTimer = 0
  /\ hazards \in HazardMaps
  /\ Quiet

\* A boss fight near its end: every core collected, the guardian worn down,
\* the player with the given health.
BossFightAt(health) ==
  /\ player = [Player0 EXCEPT !.x = coresNeeded * CoreSpacing, !.health = health]
  /\ weaponCooldown = 0
  /\ currentWeapon = "blaster"
  /\ enemies = <<[archetype |-> "guardian", rarity |-> "common",
                  x |-> coresNeeded * CoreSpacing + 1, health |-> 10,
                  maxHealth |-> ENEMY_STATS("guardian").hp,
                  aiState |-> "phase1", attackTimer |-> 2, alertTimer |-> 0,
                  isBurrowed |-> FALSE, facingRight |-> FALSE, fallen |-> FALSE,
              markedForDeletion |-> FALSE]>>
  /\ loot = <<>>
  /\ coresCollected = coresNeeded
  /\ score = CoreScore * coresCollected
  /\ frameCount = 200
  /\ bossActive = TRUE
  /\ bossSpawns = 1
  /\ introTimer = 0
  /\ hazards = [c \in Cells |-> "none"]
  /\ Quiet

BossFight == BossFightAt(maxHealth)

\* ------------------------------------------------------- map generation
\* Heights are in tenths of a logical unit.
MaxSegments == 4         \* segments generated in one exploration
Segments == 350
ChunkLength == 80
StartHeight == 4500      \* LOGICAL_HEIGHT - 150
MinH == 1000
MaxH == 5500             \* LOGICAL_HEIGHT - 50
LowBand == 1500          \* if (height < 150) height += 2
HighBand == 4500         \* if (height > LOGICAL_HEIGHT - 150) height -= 2
Nudge == 20
HazardRaise == 400
HazardMargin == 10
PlateauEvery == 15
SpireEvery == 5

\* Math.sin(i * 0.1) * 5 + Math.cos(i * 0.05) * 2, rounded to the tenth, for
\* the segments the exploration generates.
dunesDelta(i) ==
  CASE i = 13 -> 64 [] i = 14 -> 65 [] i = 15 -> 65 [] i = 16 -> 64
    [] i = 17 -> 63 [] i = 18 -> 61
    [] i = 78 -> 35 [] i = 79 -> 36 [] i = 80 -> 36 [] i = 81 -> 36
    [] i = 82 -> 36 [] i = 83 -> 34

\* The deltas a style can draw at segment i: the ends and the middle of the
\* range of each (Math.random() - 0.5) * k, which excludes its upper end.
deltas(style, i) ==
  CASE style = "dunes" -> {dunesDelta(i)}
    [] style = "crags" -> {-75, 0, 74}
    [] style = "plateau" ->
         IF i % PlateauEvery = 0 THEN {-400, 0, 400} ELSE {0}
    [] style = "spire" ->
         IF i % SpireEvery = 0 THEN {-150, 0, 149} ELSE {-25, 0, 24}
    [] OTHER -> {0}      \* let delta = 0

\* The per-style greatest delta of the height rule.
maxDelta(style) ==
  CASE style = "dunes" -> 70
    [] style = "crags" -> 75
    [] style = "plateau" -> 400
    [] style = "spire" -> 150

\* height += delta, the clamp into [minH, maxH] and the two nudges.
stepHeight(height, delta) ==
  LET h0 == height + delta
      h1 == IF h0 < MinH THEN MinH ELSE h0
      h2 == IF h1 > MaxH THEN MaxH ELSE h1
      h3 == IF h2 < LowBand THEN h2 + Nudge ELSE h2
  IN IF h3 > HighBand THEN h3 - Nudge ELSE h3

\* The hazard kinds the style's draws can give, 'none' replaced by the
\* planet-colour fallback.
hazardKinds(style, fallback) ==
  LET styled == CASE style = "dunes" -> {"geyser", "none"}
                  [] style = "plateau" -> {"electric", "none"}
                  [] style = "crags" -> {"lava"}
                  [] style = "spire" -> {"acid", "electric"}
                  [] OTHER -> {"none"}
  IN {IF k = "none" THEN fallback ELSE k : k \in styled}

\* planet.allowedBiomes[Math.floor(Math.random() * planet.allowedBiomes.length)]
\* and planet.allowedBiomes[0]: undefined, written "none", on an empty list.
pickStyles(allowedBiomes) ==
  IF allowedBiomes = <<>> THEN {"none"}
  ELSE {allowedBiomes[n] : n \in 1..Len(allowedBiomes)}

\* vegDensity * (planet.vegetationDensity * 1.5) in thousandths, the planet's
\* density in tenths.
effectiveVegDensity(style, vegetationDensity) ==
  LET vegDensity == CASE style = "dunes" -> 2
                      [] style = "spire" -> 3
                      [] style = "plateau" -> 7
                      [] OTHER -> 5
  IN vegDensity * vegetationDensity * 15

\* !isHazard && Math.random() < effectiveVegDensity: whether a plant is pushed.
vegetationDraws(style, vegetationDensity, isHazard) ==
  LET e == effectiveVegDensity(style, vegetationDensity)
  IN IF isHazard \/ e = 0 THEN {FALSE}
     ELSE IF e >= 1000 THEN {TRUE} ELSE BOOLEAN

\* One iteration of the segment loop, every draw of Math.random() chosen.
genSegment(g) ==
  LET i == g.i
      styles == IF i % ChunkLength = 0 THEN pickStyles(g.allowedBiomes)
                ELSE {g.currentStyle}
      push(style, height, kind, isHazard) ==
        {[g EXCEPT !.i = i + 1, !.currentStyle = style, !.height = height,
                   !.terrain = IF @ = <<>> THEN <<height>>
                               ELSE <<@[Len(@)], height>>,
                   !.style = style,
                   !.kind = kind,
                   !.isHazard = isHazard,
                   !.plant = veg] :
           veg \in vegetationDraws(style, g.vegetationDensity, isHazard)}
      \* the spikes and ice pushes leave isHazard false
      plain(style, h) ==
        IF style = "spire" /\ g.cold THEN push(style, h, "ice", FALSE)
        ELSE push(style, h, "none", FALSE)
             \cup (IF style = "crags" THEN push(style, h, "spikes", FALSE)
                   ELSE {})
      raised(style, h) ==
        LET h4 == IF h + HazardRaise > MaxH THEN MaxH ELSE h + HazardRaise
        IN UNION {IF k # "none" THEN push(style, h4, k, TRUE)
                  ELSE plain(style, h4) :
                    k \in hazardKinds(style, g.fallback)}
  IN UNION {UNION {LET h == stepHeight(g.height, delta)
                   IN IF i > HazardMargin /\ i < Segments - HazardMargin
                      THEN plain(style, h) \cup raised(style, h)
                      ELSE plain(style, h) :
                   delta \in deltas(style, i)} :
            style \in styles}

\* The generator before its first segment.
Gen0 ==
  [allowedBiomes |-> <<"dunes">>, fallback |-> "none", cold |-> FALSE,
   vegetationDensity |-> 0, i |-> 0,
   height |-> StartHeight, currentStyle |-> "dunes",
   terrain |-> <<>>, style |-> "dunes", kind |-> "none", isHazard |-> FALSE,
   plant |-> FALSE, first |-> 0]

\* The generator at the top of an iteration, the last sample pushed being
\* the running height: before a plateau and spire step, and before a chunk
\* boundary; at the start height, or after the clamp at either end of the
\* band (the jitter styles reach the upper end of the screen, hazard raises
\* carry every style to the lower).
GenStarts ==
  UNION {
    {[Gen0 EXCEPT !.allowedBiomes = biomes, !.fallback = fb, !.cold = cold,
                  !.i = i, !.height = h, !.currentStyle = biomes[1],
                  !.terrain = <<h>>, !.style = biomes[1], !.first = i,
                  !.vegetationDensity = vd] :
       fb \in {"none", "lava"}, cold \in BOOLEAN, i \in {13, 78},
       vd \in {0, 3, 10},
       h \in IF biomes = <<"dunes">> THEN {StartHeight, MaxH - Nudge}
             ELSE {MinH + Nudge, StartHeight, MaxH - Nudge}} :
    biomes \in {<<"dunes">>, <<"crags">>, <<"plateau", "spire">>,
                <<"spire", "dunes">>}}

GenSegment ==
  /\ gen.i < gen.first + MaxSegments
  /\ gen.i < Segments
  /\ gen' \in genSegment(gen)
  /\ UNCHANGED <<simVars, hazards, totalCoresNeeded, gameOverCalls, victoryCalls,
                 bossSpawns, rawDelta, dt, audit, frameLimit, planet, weather,
                 timeOfDay, radio, flight>>

\* state.weatherState = 'clear'; state.currentWeather = 'clear';
\* state.weatherIntensity = 0; state.weatherTimer = 400;
Weather0 ==
  [weatherState |-> "clear", currentWeather |-> "clear",
   weatherTimer |-> MissionWeatherTimer, weatherIntensity |-> 0,
   seen |-> [state |-> "clear", kind |-> "clear", timer |-> MissionWeatherTimer]]

\* A planet without weather (weatherVolatility 0).
CalmPlanet == [weatherVolatility |-> 0, weatherTraits |-> <<"clear">>]

\* Planet configurations: volatility in tenths, the traits list empty, clear
\* only, the fallback planet's, or without 'clear'.
Planets ==
  {[weatherVolatility |-> v, weatherTraits |-> ts] :
     v \in {0, 5, 10},
     ts \in {<<>>, <<"clear">>, <<"acid_rain", "clear">>, <<"rain", "snow">>}}

Init ==
  /\ MissionStart \/ LateMission \/ BossFight
  /\ planet = CalmPlanet
  /\ weather = Weather0
  /\ timeOfDay = MissionTimeOfDay
  /\ flight = Flight0
  /\ radio = Radio0
  /\ NoSquadNear
  /\ gen = Gen0

\* A mission on any of the planets, for the weather machine alone.
WeatherInit ==
  /\ BossFight
  /\ planet \in Planets
  /\ weather = Weather0
  /\ timeOfDay = MissionTimeOfDay
  /\ flight = Flight0
  /\ radio = Radio0
  /\ NoSquadNear
  /\ gen = Gen0

WeatherNext == WeatherFrame

WeatherSpec == WeatherInit /\ [][WeatherNext]_vars

\* The map generator in the middle of its segment loop.
TerrainInit ==
  /\ BossFight
  /\ planet = CalmPlanet
  /\ weather = Weather0
  /\ timeOfDay = MissionTimeOfDay
  /\ flight = Flight0
  /\ radio = Radio0
  /\ NoSquadNear
  /\ gen \in GenStarts

TerrainNext == GenSegment

TerrainSpec == TerrainInit /\ [][TerrainNext]_vars

\* The generator of a planet whose allowedBiomes list is empty
\* (planet.allowedBiomes[0] is undefined), before a chunk boundary and before
\* the last segments of the map.
BareStarts ==
  {[Gen0 EXCEPT !.allowedBiomes = <<>>, !.fallback = fb, !.i = i,
                !.height = StartHeight, !.currentStyle = "none",
                !.terrain = <<StartHeight>>, !.style = "none", !.first = i,
                !.vegetationDensity = vd] :
     fb \in {"none", "lava"}, i \in {78, Segments - MaxSegments}, vd \in {0, 10}}

\* A mission on a planet with empty allowedBiomes and weatherTraits lists.
BareInit ==
  /\ BossFight
  /\ planet \in {p \in Planets : p.weatherTraits = <<>>}
  /\ weather = Weather0
  /\ timeOfDay = MissionTimeOfDay
  /\ flight = Flight0
  /\ radio = Radio0
  /\ NoSquadNear
  /\ gen \in BareStarts

\* state.terrain = terrain: the frames of a mission begin when the segment
\* loop has run to its end.
MapReady == gen.i = Segments

FirstFrames == MapReady /\ WeatherFrame

BareNext == GenSegment \/ FirstFrames

BareSpec == BareInit /\ [][BareNext]_vars

\* A mission from its first frame on, for the day cycle alone.
DayInit ==
  /\ BossFight
  /\ planet = CalmPlanet
  /\ weather = Weather0
  /\ timeOfDay = MissionTimeOfDay
  /\ flight = Flight0
  /\ radio = Radio0
  /\ NoSquadNear
  /\ gen = Gen0

DayNext == DayFrame

DaySpec == DayInit /\ [][DayNext]_vars

\* A mission from its first frame on, for the narrative messages alone. The
\* radio timer is a setInterval: it keeps ticking.
RadioInit == DayInit

\* The player on level ground with a full tank or with one unit of fuel left
\* (66 frames of thrust at dt 1 from a full tank), or in the last frame of
\* the fall that ends a jump made at dt 1 (38 frames after the impulse), the
\* jump key up or still down.
LowFuel == 10
FlightStarts ==
  {[Flight0 EXCEPT !.fuel = fuel] : fuel \in {maxFuelBase, LowFuel}}
  \cup {[Flight0 EXCEPT !.height = 95, !.vy = 90, !.isGrounded = FALSE,
                        !.coyoteTimer = 0, !.airborne = TRUE,
                        !.jumpLock = down, !.held = down,
                        !.keys = [jump |-> down, jetpack |-> FALSE]] :
          down \in BOOLEAN}
FlightInit ==
  /\ BossFight
  /\ planet = CalmPlanet
  /\ weather = Weather0
  /\ timeOfDay = MissionTimeOfDay
  /\ radio = Radio0
  /\ NoSquadNear
  /\ gen = Gen0
  /\ flight \in FlightStarts

FlightNext == FlightFrame

FlightSpec == FlightInit /\ [][FlightNext]_vars

RadioNext == RadioTick \/ LandingTimeout \/ FrameMessages

RadioSpec == RadioInit /\ [][RadioNext]_vars /\ WF_vars(RadioTick)

\* ------------------------------------------------------------- the arena
\* The player at ArenaCell with enemies that spawnEnemy pushed around it.
ArenaCell == 6

Spawned(x, arch, forcedRarity, rarityRoll) ==
  spawnEnemy([enemies |-> <<>>], x, arch, forcedRarity, rarityRoll).enemies[1]

\* A shielder at some point of its duty cycle: pushed in 'chase' with 300
\* frames to run, 'idle' with 180 after the first toggle.
ShielderAt(x, stance, timer, facing) ==
  [Spawned(x, "shielder", "none", FALSE)
     EXCEPT !.aiState = stance, !.attackTimer = timer, !.facingRight = facing]

\* A common crawler of a planet on which scaledHP is 20, whole or one blaster
\* hit from death.
CrawlerAt(x, hp) ==
  [Spawned(x, "crawler", "none", FALSE) EXCEPT !.health = hp, !.maxHealth = 20]

\* A crawler that saw the player AlertFrames - 2 ticks ago.
AlertedAt(x) ==
  [Spawned(x, "crawler", "none", FALSE) EXCEPT !.aiState = "alert", !.alertTimer = 2]

ArenaLineups ==
  {<<ShielderAt(x, st[1], st[2], facing)>> :
      x \in {ArenaCell - 1, ArenaCell + 1, ArenaCell + 3},
      st \in {<<"chase", 300>>, <<"chase", 2>>, <<"idle", 180>>, <<"idle", 2>>},
      facing \in BOOLEAN}
  \* the 20-health crawler, fresh or after one blaster hit
  \cup {<<CrawlerAt(ArenaCell + 1, hp)>> : hp \in {20, 20 - finalDmg("blaster")}}
  \cup {<<AlertedAt(ArenaCell - 3)>>}
  \cup {<<Spawned(ArenaCell + 1, "neutral", "none", FALSE)>>}
  \cup {<<Spawned(ArenaCell + 1, "crawler", "none", r),
          Spawned(ArenaCell + 2, "sandworm", "none", FALSE)>> : r \in BOOLEAN}
  \cup {<<Spawned(ArenaCell + 1, "crawler", "elite", FALSE),
          Guard("sentinel", ArenaCell + 3, ENEMY_STATS("sentinel").hp * 2)>>}

\* A dasher in the given state of its chase / charge cycle.
DasherAt(x, stance, attack, alert) ==
  [Spawned(x, "dasher", "none", FALSE)
     EXCEPT !.aiState = stance, !.attackTimer = attack, !.alertTimer = alert]

\* Dashers that chase outside and inside the trigger radius, one about to
\* finish its alert, and dashers near or at the end of their telegraph.
DasherLineups ==
  {<<DasherAt(x, "chase", 0, 0)>> : x \in {ArenaCell + 2, ArenaCell + 4}}
  \cup {<<DasherAt(ArenaCell + 2, "alert", 0, 2)>>}
  \cup {<<DasherAt(ArenaCell - 4, "charge", t, 0)>> : t \in 0..2}
  \cup {<<DasherAt(ArenaCell + 2, "chase", 0, 0),
          DasherAt(ArenaCell - 5, "charge", 0, 0)>>}

ArenaWith(lineups) ==
  /\ player = [Player0 EXCEPT !.x = ArenaCell]
  /\ weaponCooldown = 0
  /\ enemies \in lineups
  /\ currentWeapon \in (IF Len(enemies) = 2
                        THEN {"blaster", "launcher", "sniper"}
                        ELSE {"blaster"})
  /\ loot = <<>>
  /\ coresCollected = 0
  /\ score = 0
  /\ frameCount = 60
  /\ bossActive = FALSE
  /\ bossSpawns = 0
  /\ introTimer = 0
  /\ hazards = [c \in Cells |-> "none"]
  /\ totalCoresNeeded = coresNeeded
  /\ isPlaying = TRUE
  /\ hitStop = 0
  /\ projectiles = <<>>
  /\ gameOverCalls = <<>>
  /\ victoryCalls = <<>>
  /\ rawDelta = 0
  /\ dt = 0
  /\ audit = NoAudit
  /\ frameLimit = frameCount + MaxFrames + 1
  /\ planet = CalmPlanet
  /\ weather = Weather0
  /\ timeOfDay = MissionTimeOfDay
  /\ flight = Flight0
  /\ radio = Radio0
  /\ NoSquadNear
  /\ gen = Gen0

ArenaInit == ArenaWith(ArenaLineups)

Next == Loop

ArenaSpec == ArenaInit /\ [][Next]_vars

DasherInit == ArenaWith(DasherLineups)

DasherSpec == DasherInit /\ [][Next]_vars

\* The end of a boss fight, the player unhurt or one contact from death.
FinaleInit ==
  /\ \E health \in {maxHealth, ContactDamage} : BossFightAt(health)
  /\ planet = CalmPlanet
  /\ weather = Weather0
  /\ timeOfDay = MissionTimeOfDay
  /\ flight = Flight0
  /\ radio = Radio0
  /\ NoSquadNear
  /\ gen = Gen0

FinaleSpec == FinaleInit /\ [][Next]_vars

\* A planet of enemyDensity 3 (randInt(2, 9)): five cores, of which only the
\* third lies on a segment boundary.  The mission is at the end of its intro,
\* the cores still hang 50 units above the ground, and one stretch of the map
\* at most is lava.
DenseDensity == 3
coresFor(density) == 4 + (2 * density) \div 5
coreCell(i, total) == (WorldMax * (i + 1)) \div (total + 1)
CoreOf(i, total) == [Core(i, FALSE) EXCEPT !.x = coreCell(i, total)]
LavaCells == {coreCell(0, coresFor(DenseDensity)),
              coreCell(2, coresFor(DenseDensity))}
DenseInit ==
  /\ player = Player0
  /\ weaponCooldown = 0
  /\ currentWeapon = "blaster"
  /\ \E a \in GuardArchetypes :
        enemies = <<Guard(a, coreCell(3, coresFor(DenseDensity)) + 1,
                          ENEMY_STATS(a).hp * 2),
                    Guard(a, coreCell(4, coresFor(DenseDensity)) + 1,
                          ENEMY_STATS(a).hp * 2)>>
  /\ loot = [i \in 1..coresFor(DenseDensity) |->
               CoreOf(i - 1, coresFor(DenseDensity))]
  /\ score = 0
  /\ coresCollected = 0
  /\ frameCount = 0
  /\ bossActive = FALSE
  /\ bossSpawns = 0
  /\ introTimer = 0
  /\ \E lava \in LavaCells \cup {-1} :
        hazards = [c \in Cells |-> IF c = lava THEN "lava" ELSE "none"]
  /\ NoSquadNear
  /\ planet = CalmPlanet
  /\ weather = Weather0
  /\ timeOfDay = MissionTimeOfDay
  /\ flight = Flight0
  /\ radio = Radio0
  /\ gen = Gen0
  /\ QuietWith(coresFor(DenseDensity))

DenseSpec == DenseInit /\ [][Next]_vars

\* An arena at the entry of the update whose movement takes a hornet, which
\* no ground clamp holds, below LOGICAL_HEIGHT + 300; next to the player an
\* elite or common crawler, whole, one blaster hit from death, or brought to
\* health 0 by the projectile loop of the update before.
FallingHornet(x) ==
  [Spawned(x, "hornet", "none", FALSE) EXCEPT !.fallen = TRUE]
WornCrawler(x, rarity, hp) ==
  [Spawned(x, "crawler", rarity, FALSE)
     EXCEPT !.health = hp, !.aiState = IF hp <= 0 THEN "chase" ELSE @]
PitLineups ==
  {<<FallingHornet(ArenaCell + 3)>>}
  \cup {<<WornCrawler(ArenaCell + 1, rarity, hp), FallingHornet(ArenaCell + 3)>> :
          rarity \in {"none", "elite"}, hp \in {0, finalDmg("blaster")}}
PitInit == ArenaWith(PitLineups)
PitSpec == PitInit /\ [][Next]_vars

\* A firing range: no enemy, the player with the blaster or the scatter gun,
\* the cooldown run out, about to run out or just set, and a launcher lying
\* where the player stands or one cell ahead.
WeaponDrop(x, weapon) ==
  [lootType |-> "weapon", weaponType |-> weapon, x |-> x, landed |-> TRUE,
   markedForDeletion |-> FALSE]
RangeInit ==
  /\ player = [Player0 EXCEPT !.x = ArenaCell]
  /\ currentWeapon \in {"blaster", "scatter"}
  /\ weaponCooldown \in {0, 2, WEAPONS(currentWeapon).fireRate}
  /\ enemies = <<>>
  /\ \E x \in {ArenaCell, ArenaCell + 1} : loot = <<WeaponDrop(x, "launcher")>>
  /\ coresCollected = 0
  /\ score = 0
  /\ frameCount = 60
  /\ bossActive = FALSE
  /\ bossSpawns = 0
  /\ introTimer = 0
  /\ hazards = [c \in Cells |-> "none"]
  /\ planet = CalmPlanet
  /\ weather = Weather0
  /\ timeOfDay = MissionTimeOfDay
  /\ flight = Flight0
  /\ radio = Radio0
  /\ NoSquadNear
  /\ gen = Gen0
  /\ Quiet

RangeSpec == RangeInit /\ [][Next]_vars

\* The end of a mission with a squad threshold at hand: behind the player,
\* between the player and the last core, or at the core; and a boss fight
\* with the threshold behind the player.
SquadInit ==
  /\ LateMission \/ BossFight
  /\ currentWeapon = "blaster"
  /\ player.health = maxHealth
  /\ \A n \in 1..Len(enemies) : enemies[n].archetype \in {"dasher", "guardian"}
  /\ \A c \in Cells : hazards[c] \in {"none", "spikes"}
  /\ nextSquadSpawnX \in {player.x - 1, player.x + 1, player.x + 2}
  /\ squadSpawns = 1
  /\ planet = CalmPlanet
  /\ weather = Weather0
  /\ timeOfDay = MissionTimeOfDay
  /\ flight = Flight0
  /\ radio = Radio0
  /\ gen = Gen0

SquadSpec == SquadInit /\ [][Next]_vars

Spec == Init /\ [][Next]_vars

\* ------------------------------------------------------------ properties
Marked(seq) == {i \in 1..Len(seq) : seq[i].markedForDeletion}

\* C1: at the end of every update that reaches compaction no member of
\* enemies, projectiles or loot has markedForDeletion = true (a flagged entity
\* is gone from its collection once that update's compaction has run).
C1_NoMarkedAfterCompaction ==
  Marked(enemies) = {} /\ Marked(projectiles) = {} /\ Marked(loot) = {}

\* An update whose compaction removed at least one flagged entity.
C1_Witness == audit.path = "frame" /\ audit.removed > 0

\* C2 (as stated): once an entity is flagged during an update, no later step
\* of that update resolves a collision with it: no explosion damage to a
\* flagged enemy, no explosion of a flagged projectile, no pickup of a flagged
\* loot item.
C2_MarkedNeverResolved == audit.markedHits = {}

Guardians == {i \in 1..Len(enemies) : enemies[i].archetype = "guardian"}

\* C3: over a whole mission the boss is spawned exactly once, at the core
\* pickup that makes coresCollected reach totalCoresNeeded: the number of
\* guardians pushed is 0 before that pickup and 1 from it on, the update that
\* pushes one is the update in which the count is reached, and no second
\* guardian ever stands in the collection.
C3_BossSpawnedOnce ==
  /\ bossSpawns = (IF coresCollected >= totalCoresNeeded THEN 1 ELSE 0)
  /\ bossActive = (bossSpawns = 1)
  /\ audit.bossSpawned => coresCollected = totalCoresNeeded
  /\ Cardinality(Guardians) <= bossSpawns

\* The update in which the last core was picked up and the guardian pushed.
C3_Witness ==
  audit.bossSpawned /\ bossSpawns = 1 /\ Guardians # {} /\ loot = <<>>

\* C4 (as stated): when the player's health becomes <= 0 during an update,
\* onGameOver is invoked exactly once in that same update, and the loop stops.
C4_DeathRaisesGameOver ==
  audit.deathSeen => (Len(gameOverCalls) = 1 /\ ~isPlaying)

\* C5: onVictory is never invoked while coresCollected < totalCoresNeeded:
\* every invocation so far carries a full core count, and the boss had been
\* spawned by then.
C5_VictoryOnlyAfterCores ==
  \A k \in 1..Len(victoryCalls) :
     /\ victoryCalls[k].coresCollected >= totalCoresNeeded
     /\ coresCollected >= totalCoresNeeded
     /\ bossSpawns = 1

\* The guardian has died and onVictory has been invoked.
C5_Witness == Len(victoryCalls) > 0 /\ Guardians = {} /\ audit.removed > 0

\* C6: in an update that starts its simulation with hitTimer positive no
\* damage source reduces the player's health; a damage application happens
\* only with hitTimer <= 0 and leaves hitTimer = INVULNERABILITY_FRAMES; so
\* an update applies damage at most once.
C6_InvulnerabilityWindow ==
  audit.path = "frame" =>
    /\ audit.timer > 0 => (audit.damage = <<>> /\ player.health >= audit.health)
    /\ Len(audit.damage) <= 1
    /\ \A k \in 1..Len(audit.damage) :
          /\ audit.damage[k].timer <= 0
          /\ player.hitTimer = INVULNERABILITY_FRAMES
    /\ \A k \in 1..Len(audit.blocked) :
          audit.blocked[k].timer > 0 /\ audit.blocked[k].health <= player.health

\* One update in which a hazard damaged the player and the enemy contact
\* that followed was refused.
C6_Witness ==
  /\ Len(audit.damage) = 1
  /\ audit.damage[1].src \in {"lava", "acid", "spikes", "geyser", "electric"}
  /\ \E k \in 1..Len(audit.blocked) : audit.blocked[k].src = "contact"

\* C7: a contact hit on a player with 100 health and hitTimer 0 leaves health
\* at 85 and hitTimer at INVULNERABILITY_FRAMES (60); a contact overlap in a
\* later update, while the timer has not counted down to <= 0, takes nothing.
C7_ContactHit ==
  /\ \A k \in 1..Len(audit.damage) :
        (audit.damage[k].src = "contact" /\ audit.damage[k].before = 100
           /\ audit.damage[k].timer = 0)
        => /\ audit.damage[k].after = 85
           /\ player.hitTimer = 60
           /\ player.health >= 85
  /\ \A k \in 1..Len(audit.blocked) :
        (audit.blocked[k].src = "contact" /\ audit.health = 85)
        => /\ audit.timer > 0
           /\ audit.damage = <<>>
           /\ player.health >= 85

\* A later update, after the hit-stop of a first contact hit, in which the
\* enemy still overlaps the player at 85 health and the timer is running.
C7_Witness ==
  /\ player.health = 85
  /\ player.hitTimer > 0 /\ player.hitTimer < INVULNERABILITY_FRAMES
  /\ \E k \in 1..Len(audit.blocked) : audit.blocked[k].src = "contact"

\* C8: an update called with hitStop > 0 decrements hitStop by one and
\* changes nothing else: player, weapon, enemies, projectiles, loot, score,
\* cores, frameCount, the intro timer and the boss flag keep their values and
\* neither onGameOver nor onVictory is invoked.
C8_HitStopFrame ==
  [][hitStop > 0 =>
       /\ hitStop' = hitStop - 1
       /\ UNCHANGED <<player, weaponCooldown, currentWeapon, enemies,
                      projectiles, loot, score, coresCollected, frameCount,
                      isPlaying, bossActive, introTimer, gameOverCalls,
                      victoryCalls, bossSpawns, weather>>]_vars

\* A hit-stop frame has run while entities were in flight.
C8_Witness == audit.path = "hitStop" /\ hitStop > 0 /\ projectiles # <<>>

Timers(es) == [i \in 1..Len(es) |-> <<es[i].x, es[i].attackTimer, es[i].alertTimer>>]

\* C9 (as stated): update(0) outside hit-stop and intro leaves every position
\* and timer unchanged: the player's position and hitTimer, the weapon
\* cooldown, and the position, attackTimer and alertTimer of every enemy that
\* stays in the collection.
C9_ZeroDtChangesNothing ==
  [][(hitStop = 0 /\ introTimer = 0 /\ dt' = 0) =>
       /\ player'.x = player.x
       /\ player'.hitTimer = player.hitTimer
       /\ weaponCooldown' = weaponCooldown
       /\ Len(enemies') = Len(enemies) => Timers(enemies') = Timers(enemies)]_vars

\* C10 (as stated): for every raw delta d, update is called with min(d, 4).
C10_ClampIsMin == dt = Min(rawDelta, MaxDt)

\* C10: update is called with the raw delta d when d <= 4 and with 1 when
\* d > 4, so update never runs with dt > 4.
C10_ClampedDt ==
  /\ dt = (IF rawDelta > 4 THEN 1 ELSE rawDelta)
  /\ dt <= 4

\* The loop has run with a raw delta above the cap.
C10_Witness == rawDelta > MaxDt /\ dt = FallbackDt /\ audit.path # "none"

\* C11: the weather intensity is within [0,1] after every update, in every
\* phase, for every dt and every weatherVolatility.
C11_IntensityInRange ==
  weather.weatherIntensity >= 0 /\ weather.weatherIntensity <= IntensityOne

\* A buildup that has ramped the intensity all the way to 1.
C11_Witness ==
  weather.weatherState = "buildup" /\ weather.weatherIntensity = IntensityOne

\* C12: the weather phase changes only in an update in which the phase
\* timer, after being decremented, is <= 0; an update in which the timer
\* stays positive leaves the phase and the weather kind as they were.
C12_PhaseChangeNeedsExpiry ==
  /\ weather.seen.timer > 0 =>
       /\ weather.weatherState = weather.seen.state
       /\ weather.currentWeather = weather.seen.kind
  /\ weather.weatherState # weather.seen.state => weather.seen.timer <= 0

\* An update that found the timer expired and changed the phase.
C12_Witness ==
  weather.weatherState = "active" /\ weather.seen.state = "buildup"
    /\ weather.seen.timer <= 0

PhaseCycle == {<<"clear", "buildup">>, <<"buildup", "active">>,
               <<"active", "fading">>, <<"fading", "clear">>}

\* C13: the weather phase only moves along clear -> buildup -> active ->
\* fading -> clear: an update leaves the phase as it was or takes it to its
\* successor, and every entry into a phase sets a positive phase timer.
C13_PhaseCycleOrder ==
  weather.weatherState # weather.seen.state =>
    /\ <<weather.seen.state, weather.weatherState>> \in PhaseCycle
    /\ weather.weatherTimer > 0

\* The cycle has been closed: an update took fading back to clear.
C13_Witness ==
  weather.seen.state = "fading" /\ weather.weatherState = "clear"

\* C14 (as stated): in the phases buildup, active and fading the current
\* weather kind is a member of the planet's weatherTraits other than 'clear'.
C14_BadWeatherChosen ==
  weather.weatherState \in {"buildup", "active", "fading"} =>
    /\ weather.currentWeather # "clear"
    /\ \E k \in 1..Len(planet.weatherTraits) :
          planet.weatherTraits[k] = weather.currentWeather

\* ------------------------------------------------------------- shielder
ShielderHits ==
  {n \in 1..Len(audit.hits) : audit.hits[n].archetype = "shielder"}

\* The lone enemy of the arena took the one hit of this update and still
\* stands: its health is the health the hit found less the damage dealt.
HitAccounted ==
  (Len(enemies) = 1 /\ Len(audit.hits) = 1 /\ audit.hits[1].weapon # "launcher")
     => enemies[1].health = audit.hits[1].health - audit.hits[1].dmg

\* C15 as stated: a hit from the side it faces on a shielder outside its
\* 'chase' stance is blocked (projectile destroyed, zero damage), and the
\* same shot on a shielder in its 'chase' stance deals full damage.
C15_ChaseStanceTakesDamage ==
  \A n \in ShielderHits :
     LET h == audit.hits[n]
     IN IF h.aiState = "chase"
        THEN ~h.blocked /\ h.dmg = finalDmg(h.weapon)
        ELSE h.front => h.blocked /\ h.dmg = 0 /\ h.destroyed

\* C15 amended: the shield is up in the 'chase' stance. A projectile that
\* hits a shielder in 'chase' from the side it faces (the shot moves against
\* the shielder's facing) is destroyed and deals zero damage; the same shot on a shielder in
\* its shield-down stance ('idle' or 'alert'), and a shot from behind in any
\* stance, deals full damage.
C15_ShieldUpBlocksFront ==
  /\ \A n \in ShielderHits :
        LET h == audit.hits[n]
        IN IF h.aiState = "chase" /\ h.front
           THEN h.blocked /\ h.dmg = 0 /\ h.destroyed
           ELSE ~h.blocked /\ h.dmg = finalDmg(h.weapon) /\ h.dmg > 0
  /\ HitAccounted

\* Both cases have happened in one update history: a blocked frontal shot on
\* a 'chase' shielder, or a full-damage shot on an 'idle' one.
C15_Witness ==
  /\ Len(enemies) = 1 /\ enemies[1].archetype = "shielder"
  /\ Len(audit.hits) = 1
  /\ audit.hits[1].aiState = "chase" /\ audit.hits[1].front
  /\ audit.hits[1].blocked
  /\ enemies[1].health = enemies[1].maxHealth
  /\ projectiles = <<>>

\* A shot that found the shield down and took its damage.
ShieldDownHit ==
  /\ Len(enemies) = 1 /\ enemies[1].archetype = "shielder"
  /\ Len(audit.hits) = 1
  /\ audit.hits[1].aiState = "idle" /\ audit.hits[1].front
  /\ enemies[1].health = enemies[1].maxHealth - finalDmg("blaster")

\* The shield is up exactly in the 'chase' stance.
shieldUp(e) == e.aiState = "chase"

\* C16: a shielder changes stance (shield up <-> shield down) only in an
\* update in which its duty-cycle timer expires (attackTimer - dt <= 0),
\* whatever the player's distance and whatever hits it receives.
C16_StanceOnlyOnExpiry ==
  [][\A i \in 1..Len(enemies) :
        (/\ Len(enemies') = Len(enemies)
         /\ enemies[i].archetype = "shielder"
         /\ enemies'[i].archetype = "shielder"
         /\ shieldUp(enemies'[i]) # shieldUp(enemies[i]))
        => enemies[i].attackTimer - dt' <= 0]_vars

\* ------------------------------------------------------------- sandworm
\* C17: a burrowed sandworm is invulnerable: its health never decreases while
\* isBurrowed holds, whether from a direct projectile hit or from an
\* explosion. Nothing heals an enemy and a sandworm is pushed with
\* health = maxHealth, so a burrowed sandworm still has its full health.
C17_BurrowedKeepsHealth ==
  \A i \in 1..Len(enemies) :
     (enemies[i].archetype = "sandworm" /\ enemies[i].isBurrowed)
        => enemies[i].health = enemies[i].maxHealth

\* ------------------------------------------------------- damage and death
BlasterDamage == finalDmg("blaster")

\* The arena's common crawler with 20 health, while it stands.
Crawler20 ==
  {i \in 1..Len(enemies) :
     enemies[i].archetype = "crawler" /\ enemies[i].maxHealth = 20}

\* The score the kills of one update award.
RECURSIVE Awards(_)
Awards(kills) ==
  IF kills = <<>> THEN 0 ELSE Head(kills).gain + Awards(Tail(kills))

\* C18: with damageMultiplier 1.0 every unblocked blaster hit takes the same
\* 10 = ceil(10 * damageMult(blaster) * 1.0) off the enemy's health. An enemy
\* with 20 health and no shield is marked for deletion, and its score
\* awarded, by the enemy loop of the first simulated frame after the
\* cumulative damage has reached 20, and not before: every enemy that enters
\* a simulated frame with health <= 0 is killed in it, every kill is of an
\* enemy with health <= 0, the score rises by the kills' awards, and the
\* 20-health crawler stands unscored at 20 less a multiple of 10, at or below
\* 0 only in the update whose hits took it there.
C18_BlasterKill ==
  /\ damageMultFifths = 5 /\ BlasterDamage = 10
  /\ \A n \in 1..Len(audit.hits) :
        (audit.hits[n].weapon = "blaster" /\ ~audit.hits[n].blocked)
           => audit.hits[n].dmg = BlasterDamage
  /\ \A n \in 1..Len(audit.kills) : audit.kills[n].health <= 0
  /\ audit.path = "frame" =>
        /\ Len(audit.kills) = audit.dying
        /\ score = audit.score + Awards(audit.kills)
  /\ \A i \in Crawler20 :
        /\ score = 0
        /\ currentWeapon = "blaster" =>
              /\ enemies[i].health <= 20
              /\ (20 - enemies[i].health) % BlasterDamage = 0
              /\ (enemies[i].health <= 0 /\ audit.path = "frame")
                    => Len(audit.hits) > 0

\* The 20-health crawler took its second blaster hit and, one simulated
\* frame later, was removed and its score awarded.
C18_Witness ==
  /\ enemies = <<>>
  /\ Len(audit.kills) = 1
  /\ audit.kills[1].archetype = "crawler" /\ audit.kills[1].rarity = "common"
  /\ audit.kills[1].health = 0
  /\ score = ENEMY_STATS("crawler").score
  /\ audit.score = 0

\* ----------------------------------------------------------------- elites
\* C19: every enemy with rarity elite, whichever path created it (random
\* spawn, squad leader, sandworm promotion, core guard), has max health at
\* least twice the health of a common enemy of its archetype at the same
\* enemyDensity (scaledHP), and awards at least twice the archetype's base
\* score on death.
C19_EliteDoubleHealth ==
  /\ \A i \in 1..Len(enemies) :
        enemies[i].rarity = "elite"
           => enemies[i].maxHealth >= 2 * scaledHP(enemies[i].archetype)
  /\ \A n \in 1..Len(audit.kills) :
        audit.kills[n].rarity = "elite"
           => audit.kills[n].gain >= 2 * ENEMY_STATS(audit.kills[n].archetype).score

\* ---------------------------------------------------------------- terrain
\* C20: for every generated terrain, two consecutive height samples differ by
\* at most the maximum delta of the biome style in force at the later
\* segment (dunes 7, crags 7.5, plateau 40, spire 15), also at segments where
\* a hazard is placed.
C20_BoundedSlope ==
  Len(gen.terrain) = 2
     => Abs(gen.terrain[2] - gen.terrain[1]) <= maxDelta(gen.style)

\* C21: in generated worlds no segment holds both a hazard and vegetation:
\* whatever the kind of the hazard pushed for a segment (lava, acid, geyser,
\* electric, spikes, ice), no vegetation item is pushed in that segment.
C21_NoPlantOnHazard == gen.kind # "none" => ~gen.plant

\* ------------------------------------------------------------------ aggro
\* The changes of aiState of this update made on enemies the generic aggro
\* rule applies to.
AggroMoves ==
  {n \in 1..Len(audit.moves) :
     audit.moves[n].archetype \notin {"neutral", "guardian"}}

\* distance between 1x and 1.5x the aggro range
InBand(m) ==
  LET aggroRange == aggroRangeOf(m.archetype)
  IN units(m.dist) >= aggroRange /\ 2 * units(m.dist) <= 3 * aggroRange

\* C22 as stated: for every non-neutral, non-guardian enemy, idle -> alert
\* happens only at distance < aggro range, alert -> chase only once the
\* alert timer has counted down to <= 0, chase -> idle only at distance
\* > 1.5 x aggro range, and an enemy between 1x and 1.5x aggro range does not
\* change state.
C22_AggroGuardsOnly ==
  \A n \in AggroMoves :
     LET m == audit.moves[n]
         aggroRange == aggroRangeOf(m.archetype)
     IN /\ (m.from = "idle" /\ m.to = "alert") => units(m.dist) < aggroRange
        /\ (m.from = "alert" /\ m.to = "chase") => m.alertTimer <= 0
        /\ (m.from = "chase" /\ m.to = "idle") => 2 * units(m.dist) > 3 * aggroRange
        /\ ~InBand(m)

\* C22 amended: the generic aggro rule obeys its guards (idle -> alert only
\* at distance < aggro range and with the alert timer set to 40, alert ->
\* chase only once that timer is <= 0, chase or charge -> idle only at
\* distance > 1.5 x aggro range), and alert is entered in no other way. An
\* enemy between 1x and 1.5x aggro range still changes state when its alert
\* timer runs out, when an unblocked non-explosive projectile hit promotes it
\* from idle to chase, or by its archetype's own rule (dasher, shielder).
C22_AggroRuleGuards ==
  \A n \in AggroMoves :
     LET m == audit.moves[n]
         aggroRange == aggroRangeOf(m.archetype)
     IN /\ m.to = "alert" =>
             /\ m.by = "aggro" /\ m.from = "idle"
             /\ units(m.dist) < aggroRange /\ m.alertTimer = AlertFrames
        /\ m.by = "aggro" =>
             \/ m.from = "idle" /\ m.to = "alert"
             \/ m.from = "alert" /\ m.to = "chase" /\ m.alertTimer <= 0
             \/ m.from \in {"chase", "charge"} /\ m.to = "idle"
                /\ 2 * units(m.dist) > 3 * aggroRange
        /\ m.by = "hit" => m.from = "idle" /\ m.to = "chase"
        /\ m.by = "archetype" => m.archetype \in {"dasher", "shielder"}
        /\ (InBand(m) /\ m.by = "aggro") => m.from = "alert"

\* A crawler in chase dropped back to idle as the player went out of range.
C22_Witness ==
  \E n \in AggroMoves :
     /\ audit.moves[n].archetype = "crawler"
     /\ audit.moves[n].from = "chase" /\ audit.moves[n].to = "idle"
     /\ audit.moves[n].dist = 5

\* ----------------------------------------------------------------- pierce
\* The enemies (by their place) a projectile in flight has damaged so far
\* are kept in its `struck` list, which the program does not have.
\* C23: a player projectile with pierce count p damages at most p further,
\* distinct enemies after its first hit: it has applied damage at most p + 1
\* times, never twice to the same enemy, and the hit that finds its pierce
\* exhausted destroys it (a projectile in flight has pierce left for every
\* hit it made).
C23_PierceDistinct ==
  \A j \in 1..Len(projectiles) :
     LET proj == projectiles[j]
     IN proj.type = "projectile" =>
          /\ Len(proj.struck) + proj.pierceCount = WEAPONS(proj.weaponType).pierce
          /\ \A a, b \in 1..Len(proj.struck) :
                proj.struck[a] = proj.struck[b] => a = b

\* ---------------------------------------------------------------- contact
IsContact(rec) == rec.src = "contact"

\* The number of contact records in a sequence of damage records.
Contacts(seq) == Cardinality({n \in 1..Len(seq) : IsContact(seq[n])})

IsHostile(archetype) == archetype # "neutral"

\* The number of hostile archetypes in a sequence of touched archetypes.
Hostiles(seq) == Cardinality({n \in 1..Len(seq) : IsHostile(seq[n])})

\* C24: a neutral enemy never deals contact damage. Every contact damage of
\* an update, applied or refused by the invulnerability timer, belongs to one
\* overlap with a non-neutral enemy; an update in which the player overlaps
\* only neutral enemies and nothing else hurts it leaves the player's health
\* no lower than it was and does not set the invulnerability timer.
C24_NeutralHarmless ==
  /\ Contacts(audit.damage) + Contacts(audit.blocked)
        = Hostiles(audit.touches)
  /\ (audit.path = "frame" /\ audit.damage = <<>>) =>
        /\ player.health >= audit.health
        /\ player.hitTimer <= audit.timer

\* The player stood on a neutral enemy for a simulated frame, unharmed.
C24_Witness ==
  /\ audit.path = "frame"
  /\ audit.touches = <<"neutral">>
  /\ audit.damage = <<>> /\ audit.blocked = <<>>
  /\ player.health = audit.health /\ player.hitTimer = 0 /\ hitStop = 0
  /\ \E i \in 1..Len(enemies) :
        enemies[i].archetype = "neutral" /\ enemies[i].x = player.x

\* ---------------------------------------------------------- health pickup
\* C25: player health never exceeds max health. After any sequence of updates
\* and pickups player.health <= player.maxHealth, and every health pickup
\* restores 20 points capped at maxHealth.
C25_HealthCapped ==
  /\ player.health <= player.maxHealth
  /\ \A n \in 1..Len(audit.pickups) :
        LET pick == audit.pickups[n]
        IN /\ pick.after <= player.maxHealth
           /\ pick.after = pick.before + HealthPickup \/ pick.after = player.maxHealth
           /\ pick.after >= pick.before

\* A health pickup taken with fewer than 20 points missing: the cap applies.
C25_Witness ==
  /\ player.health <= player.maxHealth
  /\ \E n \in 1..Len(audit.pickups) :
        /\ audit.pickups[n].before + HealthPickup > player.maxHealth
        /\ audit.pickups[n].after = player.maxHealth

\* ------------------------------------------------------------- loot drops
\* C26: on an enemy's death the weapon-loot drop and the health-loot drop are
\* decided independently of each other: each kind is dropped exactly when its
\* own chance test succeeds, whatever the other test gave, so a death whose
\* two tests both succeed yields a weapon drop and a health drop.
C26_DropsIndependent ==
  \A n \in 1..Len(audit.kills) :
     /\ ("weapon" \in audit.kills[n].drops) = audit.kills[n].weaponDue
     /\ ("health" \in audit.kills[n].drops) = audit.kills[n].healthDue

\* What the code does: one draw decides both, the weapon first, so a death
\* yields at most one drop and a weapon drop excludes the health drop.
DropsExclusive ==
  \A n \in 1..Len(audit.kills) :
     /\ Cardinality(audit.kills[n].drops) <= 1
     /\ ("weapon" \in audit.kills[n].drops) = audit.kills[n].weaponDue
     /\ ("health" \in audit.kills[n].drops)
           = (audit.kills[n].healthDue /\ ~audit.kills[n].weaponDue)

\* --------------------------------------------------------------- day cycle
\* C27: time-of-day stays in the half-open range [0,1) after every update: it
\* never equals or exceeds 1 and never goes negative.
C27_TimeOfDayHalfOpen == timeOfDay >= 0 /\ timeOfDay < DayCycle

\* What the code keeps: time-of-day within the closed range [0,1].
TimeOfDayClosed == timeOfDay >= 0 /\ timeOfDay <= DayCycle

\* ------------------------------------------------------ empty planet lists
\* C28: a PlanetConfig with an empty allowedBiomes or empty weatherTraits
\* list does not break the mission. With empty allowedBiomes every segment is
\* generated with the same default style, the one no per-style rule matches
\* (no height delta but the band's nudge and a hazard's raise, the base
\* vegetation density, the planet's fallback hazard), and its height stays
\* within the band; with empty weatherTraits
\* the weather stays 'clear' in phase clear, at intensity 0, for the whole
\* mission.
C28_EmptyListsFallBack ==
  /\ (gen.allowedBiomes = <<>> /\ gen.i > gen.first) =>
        /\ gen.style = "none" /\ gen.currentStyle = "none"
        /\ gen.height >= MinH /\ gen.height <= MaxH
        /\ gen.kind \in {"none", gen.fallback}
        /\ Len(gen.terrain) = 2
        /\ gen.terrain[2] = gen.height
        /\ gen.terrain[2] - gen.terrain[1] >= -Nudge
        /\ gen.terrain[2] - gen.terrain[1] <= HazardRaise
  /\ planet.weatherTraits = <<>> =>
        /\ weather.weatherState = "clear"
        /\ weather.currentWeather = "clear"
        /\ weather.weatherIntensity = 0

\* The map of a planet with both lists empty generated to its last segment,
\* and a weather phase timer that expired on a volatile planet with the
\* weather still clear.
C28_Witness ==
  /\ gen.allowedBiomes = <<>> /\ planet.weatherTraits = <<>>
  /\ gen.i = Segments /\ gen.style = "none" /\ gen.plant
  /\ planet.weatherVolatility > 0
  /\ weather.seen.timer <= 0
  /\ weather.weatherState = "clear" /\ weather.weatherTimer > 0

\* ------------------------------------------------------------------ squads
\* C29: a squad is spawned only in an update where the boss is not active and
\* the player's x exceeds nextSquadSpawnX; each spawn moves the threshold to at
\* least 800 units beyond the player's current x, so at most one squad spawns
\* per update and no squad ever spawns once the boss is active.
C29_SquadSpawnGuard ==
  /\ Len(audit.squads) <= 1
  /\ \A n \in 1..Len(audit.squads) :
        LET squad == audit.squads[n]
        IN /\ ~squad.boss
           /\ squad.x > squad.from
           /\ squad.to >= squad.x + MinSquadGap
           /\ nextSquadSpawnX = squad.to
           /\ nextSquadSpawnX >= player.x + MinSquadGap
  /\ (bossActive /\ ~audit.bossSpawned) => audit.squads = <<>>

\* A squad spawned by the update that moved the player past the threshold.
C29_Witness ==
  /\ audit.path = "frame"
  /\ Len(audit.squads) = 1
  /\ audit.squads[1].x = player.x
  /\ audit.squads[1].from < player.x
  /\ squadSpawns = 2
  /\ nextSquadSpawnX >= player.x + MinSquadGap

\* --------------------------------------------------------------- dasher
Dashers == 1..Len(audit.dashers)

\* The distance at which the aggro rule, which runs before the dasher's own
\* rule, sets a chasing or charging dasher to idle.
DasherDropped(dist) == beyondDropRange(dist, aggroRangeOf("dasher"))

DashDropped ==
  \E n \in Dashers :
     /\ audit.dashers[n].from = "charge" /\ audit.dashers[n].timer = 0
     /\ audit.dashers[n].to = "idle"

\* A telegraph tick: the timer of a charging dasher went from 2 to 1.
TelegraphTick ==
  \E n \in Dashers :
     /\ audit.dashers[n].mid = "charge" /\ audit.dashers[n].timer = 2
     /\ audit.dashers[n].timerAfter = 1 /\ ~audit.dashers[n].dashed

\* ------------------------------------------------------- radio messages
\* Every text queued so far is a text already shown or still in the queue,
\* in the order of queueing; the current message is the last one shown, and
\* no shift() ran while a message was current.
RadioInOrder ==
  /\ radio.sent = radio.shown \o radio.messageQueue
  /\ radio.currentMessage # <<>> =>
        /\ radio.shown # <<>>
        /\ radio.currentMessage[1].text = radio.shown[Len(radio.shown)]
        /\ radio.currentMessage[1].life > 0
        /\ radio.currentMessage[1].life <= MessageLife
  /\ ~radio.busy

\* C31: the narrative messages are displayed one at a time in the order they
\* were queued: the radio timer takes the head of the queue only when no
\* message is current, no queued message is lost or reordered, and the k-th
\* message queued becomes the k-th message displayed as long as the timer
\* keeps ticking.
C31_MessagesInOrder ==
  /\ []RadioInOrder
  /\ \A k \in 1..MaxMessages :
        (Len(radio.sent) >= k) ~> (Len(radio.shown) >= k)

\* Messages of two handlers passed through the radio while a third waited:
\* a message is on display, two were displayed before it and one is queued.
C31_Witness ==
  /\ Len(radio.shown) = 3
  /\ radio.currentMessage # <<>>
  /\ radio.currentMessage[1].typewriter = TextLength(radio.shown[3])
  /\ Len(radio.messageQueue) = 1
  /\ radio.landed

\* --------------------------------------------------- terminal callbacks
Terminated == Len(victoryCalls) + Len(gameOverCalls) > 0

\* C32: at most one terminal callback is emitted per mission: onVictory and
\* onGameOver are never both invoked, neither is invoked twice, and after
\* either has been invoked no update changes the simulation state.
C32_OneTerminalCallback ==
  /\ [](Len(victoryCalls) + Len(gameOverCalls) <= 1)
  /\ [][Terminated => UNCHANGED simVars]_vars

\* What the loop does guarantee: each callback is invoked at most once, and
\* onGameOver, which clears isPlaying, is the last thing a mission does.
EachTerminalOnce ==
  /\ [](Len(victoryCalls) <= 1 /\ Len(gameOverCalls) <= 1)
  /\ [][Len(gameOverCalls) > 0 => UNCHANGED vars]_vars

\* onVictory and onGameOver invoked by the same update.
BothTerminals ==
  /\ Len(victoryCalls) = 1 /\ Len(gameOverCalls) = 1
  /\ audit.path = "frame" /\ audit.deathSeen
  /\ \E k \in 1..Len(audit.kills) : audit.kills[k].archetype = "guardian"

\* A simulation frame run after onVictory: the victory of an earlier update,
\* isPlaying still set.
FrameAfterVictory ==
  /\ Len(victoryCalls) = 1 /\ isPlaying
  /\ audit.path = "frame" /\ audit.kills = <<>>

\* ---------------------------------------------------------------- cores
CoresInLoot == Cardinality({k \in 1..Len(loot) : loot[k].lootType = "core"})

\* C33: cores are conserved: after every update coresCollected plus the
\* number of core items still in the loot collection equals
\* totalCoresNeeded.
C33_CoresConserved == coresCollected + CoresInLoot = totalCoresNeeded

\* The part that holds: no core is created or counted twice.
CoresNeverGained ==
  /\ coresCollected + CoresInLoot <= totalCoresNeeded
  /\ coresCollected <= totalCoresNeeded

\* A core was removed without being collected: the boss can no longer spawn.
CoreLost ==
  /\ coresCollected + CoresInLoot < totalCoresNeeded
  /\ audit.removed > 0
  /\ ~bossActive
\* C34: an enemy whose health is <= 0 takes no further part in the simulation:
\* whatever deals contact damage, fires or summons in an update, and whatever
\* a projectile hits, has health > 0 at that moment.
C34_DeadEnemyInert ==
  /\ \A n \in 1..Len(audit.acts) : audit.acts[n].health > 0
  /\ \A n \in 1..Len(audit.hits) : audit.hits[n].health > 0

\* An enemy with health <= 0 hurt the player by contact.
DeadEnemyHurts ==
  \E n \in 1..Len(audit.acts) : audit.acts[n].health <= 0 /\ audit.acts[n].hurt

\* An enemy with health <= 0 fired.
DeadEnemyFires ==
  \E n \in 1..Len(audit.acts) : audit.acts[n].health <= 0 /\ audit.acts[n].fired

\* An enemy with health <= 0 summoned.
DeadEnemySummons ==
  \E n \in 1..Len(audit.acts) : audit.acts[n].health <= 0 /\ audit.acts[n].summoned

\* A projectile hit an enemy whose health was already <= 0.
DeadEnemyAbsorbs ==
  \E n \in 1..Len(audit.hits) : audit.hits[n].health <= 0

\* A dying enemy lasts one update: every enemy that enters an update with
\* health <= 0 is removed by that update.
DyingRemovedAtOnce ==
  audit.path = "frame" => Len(audit.kills) = audit.dying
\* The score the archetype and rarity of each kill of one update call for.
RECURSIVE Expected(_)
Expected(kills) ==
  IF kills = <<>> THEN 0
  ELSE ENEMY_STATS(Head(kills).archetype).score
          * (IF Head(kills).rarity = "elite" THEN 2 ELSE 1)
       + Expected(Tail(kills))

\* C35: each killed enemy awards its score exactly once: every enemy that
\* enters an update with health <= 0 is scored in that update, with its
\* archetype's score (doubled for an elite), and is gone after it; an enemy
\* removed only for being below the world awards nothing; the score changes
\* by nothing else than kills and core pickups, and never decreases.
C35_ScoreOncePerKill ==
  /\ [](audit.path = "frame" =>
          /\ Len(audit.kills) = audit.dying
          /\ \A n \in 1..Len(audit.kills) : audit.kills[n].health <= 0
          /\ \E cores \in 0..totalCoresNeeded :
                score = audit.score + Expected(audit.kills) + CoreScore * cores
          /\ coresCollected = 0 => score = audit.score + Expected(audit.kills)
          /\ audit.removed >= Len(audit.kills) + Len(audit.fell)
          /\ \A i \in 1..Len(enemies) : ~enemies[i].markedForDeletion)
  /\ [][score' >= score]_vars

\* One update removed a falling hornet, which scored nothing, and an elite
\* crawler hit to health 0 in the update before, which scored twice the
\* crawler's score.
C35_Witness ==
  /\ audit.path = "frame"
  /\ audit.fell = <<"hornet">>
  /\ Len(audit.kills) = 1 /\ audit.kills[1].rarity = "elite"
  /\ score = audit.score + 2 * ENEMY_STATS("crawler").score
  /\ enemies = <<>>
\* C36: each explosive projectile triggers at most one area-damage burst: no
\* projectile calls spawnExplosion twice, so a projectile that exploded on an
\* enemy does not explode again at the ground check of the same update.
C36_OneBurstPerProjectile ==
  \A m, n \in 1..Len(audit.bursts) :
     m # n => audit.bursts[m].proj # audit.bursts[n].proj

\* A projectile exploded on an enemy and again on the ground in one update.
DoubleBurst ==
  \E m, n \in 1..Len(audit.bursts) :
     /\ audit.bursts[m].proj = audit.bursts[n].proj
     /\ audit.bursts[m].at = "enemy" /\ audit.bursts[n].at = "ground"

\* A projectile bursts at most once on an enemy and at most once on the
\* ground, and a projectile that burst is gone after the update.
BurstOncePerCheck ==
  /\ \A m, n \in 1..Len(audit.bursts) :
        (m # n /\ audit.bursts[m].proj = audit.bursts[n].proj)
           => audit.bursts[m].at # audit.bursts[n].at
  /\ audit.removed >= Cardinality({audit.bursts[n].proj : n \in 1..Len(audit.bursts)})
\* C37: after a jump impulse no second impulse is applied until the player
\* has been grounded again, and none while the jump key stays down: an update
\* applies an impulse only if no earlier impulse is still airborne and the
\* key has been up since the last one.
C37_OneJumpPerGrounding ==
  [][flight'.impulse => (~flight.airborne /\ ~flight.held)]_vars

\* In the air after a jump, the key released in the update before and
\* pressed in this one, with the jump lock open: no impulse.
C37_Witness ==
  /\ flight.airborne /\ ~flight.isGrounded
  /\ flight.keys.jump /\ ~flight.held /\ ~flight.jumpLock
  /\ ~flight.impulse /\ flight.coyoteTimer = 0
  /\ flight.frames >= 3

\* The key held from a jump through the landing: no second impulse.
HeldThroughLanding ==
  /\ flight.isGrounded /\ flight.held /\ flight.keys.jump
  /\ flight.jumpLock /\ ~flight.impulse /\ flight.frames >= 2

\* A jump from the ground after a landing.
JumpAfterLanding ==
  flight.impulse /\ flight.airborne /\ flight.frames >= 2
\* C38: the jetpack fuel stays within [0, maxFuel] after every update.
C38_FuelInRange == flight.fuel >= 0 /\ flight.fuel <= flight.maxFuel

\* Thrust is applied only while fuel > 0, the recharge never raises the fuel
\* above maxFuel, and the consumption of one update takes the fuel less than
\* JETPACK_FUEL_CONSUMPTION * dt below 0.
FuelGuards ==
  /\ [](flight.fuel <= flight.maxFuel)
  /\ [](flight.fuel > -JETPACK_FUEL_CONSUMPTION * MaxDt)
  /\ [][/\ flight'.thrust => flight.fuel > 0
        /\ (flight.fuel >= 0 /\ flight'.fuel < 0) =>
              (flight'.thrust /\ flight'.fuel > -JETPACK_FUEL_CONSUMPTION * dt')]_vars

\* The tank overdrawn by an update that applied thrust.
FuelOverdrawn == flight.fuel < 0 /\ flight.thrust

\* The recharge met the cap.
RechargeCapped ==
  /\ flight.fuel = flight.maxFuel /\ flight.isGrounded /\ ~flight.keys.jetpack
  /\ flight.frames >= 2 /\ dt > 0
\* ------------------------------------------------------ sandworm surfacing
SurfaceHorizon == 2      \* updates looked ahead for a surfaced sandworm

Burrowed(w) ==
  {i \in 1..Len(w.enemies) :
     /\ w.enemies[i].archetype = "sandworm" /\ w.enemies[i].isBurrowed
     /\ w.enemies[i].health > 0 /\ ~w.enemies[i].markedForDeletion}

Surfaced(w) ==
  {i \in 1..Len(w.enemies) :
     w.enemies[i].archetype = "sandworm" /\ ~w.enemies[i].isBurrowed}

\* Every input snapshot, whatever the weapon cooldown.
AnyInputs ==
  {[inputX |-> ix, isShooting |-> FALSE, aim |-> Idle.aim] : ix \in InputX}
  \cup {[inputX |-> ix, isShooting |-> TRUE, aim |-> a] : ix \in InputX, a \in Aims}

\* Some run of at most n updates, under some frame deltas, inputs and random
\* draws, leads from world w to a world with a surfaced sandworm.
RECURSIVE CanSurface(_, _)
CanSurface(w, n) ==
  \/ Surfaced(w) # {}
  \/ /\ n > 0
     /\ w.isPlaying
     /\ \E raw \in RawDeltas, in \in AnyInputs :
           \E w2 \in update([w EXCEPT !.audit = NoAudit], clampDt(raw), in) :
              CanSurface(w2, n - 1)

\* C39: every sandworm can surface: from any state with a live burrowed
\* sandworm a state in which a sandworm has isBurrowed = false is reachable
\* (here: by at most SurfaceHorizon updates).
C39_SandwormCanSurface ==
  Burrowed(World) # {} => CanSurface(World, SurfaceHorizon)

\* No step surfaces a sandworm: isBurrowed, set by spawnEnemy, is assigned
\* nowhere else, so a state without a surfaced sandworm has no successor
\* with one, whatever the horizon.
SandwormStaysBurrowed ==
  /\ [](Surfaced(World) = {})
  /\ [][Surfaced(World) = {} => Surfaced(World)' = {}]_vars

\* A burrowed sandworm outlived the frames explored.
StillBurrowed ==
  Burrowed(World) # {} /\ frameCount = frameLimit /\ audit.path = "frame"
\* ------------------------------------------------------------ the weapon
\* if (state.weaponCooldown > 0) state.weaponCooldown -= dt;
ticked(cooldown, d) == IF cooldown > 0 THEN cooldown - d ELSE cooldown

\* C40: the player fires only in an update in which weaponCooldown <= 0 when
\* the trigger is tested; a shot pushes exactly WEAPONS[currentWeapon].count
\* projectiles and sets the cooldown to that weapon's fireRate; a weapon
\* pickup changes currentWeapon and leaves the cooldown as it is: after an
\* update the cooldown is the fireRate of the weapon fired, or the cooldown
\* of the entry less dt.
C40_FireOnCooldown ==
  audit.path = "frame" =>
     /\ Len(audit.shots) <= 1
     /\ \A n \in 1..Len(audit.shots) :
           LET shot == audit.shots[n]
           IN /\ shot.cooldown <= 0
              /\ shot.cooldown = ticked(audit.cooldown, dt)
              /\ shot.added = WEAPONS(shot.weapon).count
              /\ weaponCooldown = WEAPONS(shot.weapon).fireRate
     /\ audit.shots = <<>> => weaponCooldown = ticked(audit.cooldown, dt)
     /\ \A n \in 1..Len(audit.swaps) :
           /\ audit.swaps[n].cooldown = weaponCooldown
           /\ audit.swaps[n].to \in LootWeapons
     /\ audit.swaps # <<>> => currentWeapon = audit.swaps[Len(audit.swaps)].to

\* One update fired the scatter gun, five pellets, and picked the launcher
\* up: the cooldown is the scatter gun's, not the launcher's.
C40_Witness ==
  /\ audit.path = "frame"
  /\ Len(audit.shots) = 1 /\ audit.shots[1].weapon = "scatter"
  /\ audit.shots[1].added = 5 /\ Len(projectiles) = 5
  /\ Len(audit.swaps) = 1 /\ currentWeapon = "launcher"
  /\ weaponCooldown = WEAPONS("scatter").fireRate

\* A weapon picked up while the cooldown was running.
SwapOnRunningCooldown ==
  /\ audit.path = "frame" /\ audit.shots = <<>>
  /\ Len(audit.swaps) = 1 /\ weaponCooldown > 0
  /\ weaponCooldown = audit.cooldown - dt /\ dt > 0

\* The trigger held with the cooldown still running: no shot.
TriggerOnCooldown ==
  /\ audit.path = "frame" /\ audit.shots = <<>>
  /\ audit.cooldown = 2 /\ dt = 1 /\ weaponCooldown = 1 /\ frameCount = 61
====
